---- MODULE Spec2Model ----
(***************************************************************************)
(* PyGitDatBack: the backup-and-swap clone protocol of Repository          *)
(* (src/src/libgit/git.py), its retry loop, the CloneRepoTask that wraps   *)
(* it, and the bounded TaskQueue (src/src/ui/classes/task_queue.py, with   *)
(* the copy in src/src/ui/ui_main.py).                                     *)
(*                                                                         *)
(* The specifications of the module:                                       *)
(*   Spec          one Repository calling clone_from on one destination,   *)
(*                 step by step, on an abstract file system;               *)
(*   SpecQueue     the dispatcher thread, the pool workers, add_task,      *)
(*                 reset_task_counter and stop, interleaved;               *)
(*   SpecQueueFair SpecQueue with its threads scheduled fairly;            *)
(*   SpecPull      the rows of the window and pull_repos feeding the queue;*)
(*   SpecBranches  collect_branches and collect_active_branches;           *)
(*   SpecCalls     the functions of git.py called on their own.            *)
(***************************************************************************)
EXTENDS Integers, Sequences, FiniteSets, TLC

(***************************************************************************)
(* Bounds of the model.                                                    *)
(***************************************************************************)
MaxCalls == 2          \* clone_from calls made one after the other
MaxRetriesBound == 3   \* max_retries ranges over 1..MaxRetriesBound
NumTasks == 3          \* tasks submitted to the TaskQueue
TicksPerDay == 2       \* clock ticks in a day (the code's clock has 86400)
MaxDay == 32           \* clock readings fall in days 0..MaxDay
MaxNameLen == 5        \* tokens in a branch name, "/" being one token
MaxPathLen == 4        \* tokens in the path of a URL, "/" being one token
MaxEntries == 2        \* rows of the table
MaxRemovals == 4       \* removal attempts on one path whose outcome is chosen
MaxCpus == 8           \* os.cpu_count() ranges over 1..MaxCpus
FracDen == 4           \* load_factor and the free memory in GB are k / FracDen
MaxBranches == 2       \* branches clone_branches submits to its pool
MaxOps == 4            \* handler invocations of the window

(***************************************************************************)
(* Program constants.                                                      *)
(***************************************************************************)
DefaultMaxRetries == 3       \* git.py:37  self.max_retries = 3
MAX_CONCURRENT_TASKS == 2    \* task_queue.py:16 (value set in conf_globals)
MaxThreadCount == 4          \* QThreadPool() of task_queue.py:21, host threads
COMMIT_CUTOFF_DAYS == 30     \* git.py:15 (conf_globals), "default: 30" git.py:228
WorkersPerGB == 10           \* git.py:438  int(available_memory_gb * 10)

(***************************************************************************)
(* Directory contents.  A directory is either absent or holds one of the   *)
(* contents below; NewContent(k) is what the k-th clone_from call clones.  *)
(***************************************************************************)
ABSENT == 0
PARTIAL == 1     \* files left behind by a clone that failed half way
DAMAGED == 2     \* files left behind by a deletion that failed half way
STALE == 3       \* a backup-<name> directory left by an earlier run
ORIG == 4        \* the copy that was good before the first call
EMPTY == 5       \* a directory with nothing in it
NewContent(k) == 5 + k

Exists(dir) == dir # ABSENT

\* nothing is in the way at dir: no directory, or an empty one
Vacant(dir) == dir \in {ABSENT, EMPTY}

VARIABLES
    \* ---- Repository.clone_from on one destination (Spec) ----
    destDir,          \* content of clone_dest
    backupDir,        \* content of backup-<clone_dest.name>
    pc,               \* position inside clone_from / CloneRepoTask.run
    calls,            \* clone_from calls started so far
    max_retries,      \* self.max_retries
    attempt,          \* local of __clone_from_basecls
    successful_clone, \* local of __clone_from_basecls
    cloned_to,        \* self.cloned_to: "" or "clone_dest"
    repo,             \* self.repo: 0 (None) or the call that cloned it
    self_base,        \* the git.Repo base of self: the clone its __init__
                      \* (line 118) last opened (0: none), and whether
                      \* self.repo is self (line 119)
    outcome,          \* how clone_from ended: "none", "returned", "raised"
    signal,           \* what CloneRepoTask.run emitted: "none", "finished", "error"
    \* history of the current call
    destBefore,       \* destDir when the call started
    backupBefore,     \* backupDir when the call started
    existed,          \* clone_dest.exists() at line 91
    invocations,      \* git.Repo.clone_from invocations of this call
    sleeps,           \* time.sleep(retry_delay) calls of this call
    lastEvent,        \* last step of the retry loop (or makedirs raising)
    fsFailed,         \* a makedirs, deletion or rename of this call failed
    clonedToBefore,   \* self.cloned_to when the call started
    repoBefore,       \* self.repo when the call started
    \* ---- TaskQueue (SpecQueue) ----
    queue,            \* self.queue (FIFO of task ids)
    ongoing_tasks,    \* TaskQueue._ongoing_tasks
    is_running,       \* self.is_running
    dpc,              \* position of process_tasks (the dispatcher thread)
    dtask,            \* local `task` of process_tasks (0: none)
    original_run,     \* the closure variable of process_tasks (0: unbound)
    tstate,           \* per task: where it is in its life
    body,             \* per task: whose run body its worker executed (0: none)
    decCalls,         \* per task: decrement_ongoing_tasks calls on its behalf
    submitOrder,      \* tasks in add_task order
    dequeueOrder,     \* tasks in queue.get order
    handedOrder,      \* tasks in thread_pool.start order
    resetSeen,        \* reset_task_counter has been called
    stopped,          \* TaskQueue.stop: its position, what it found on return
    refused,          \* the dispatcher's last iteration found the cap reached
    \* ---- branch lists of one Repository (SpecBranches) ----
    repo_branches,    \* self.repo_branches
    active_branches,  \* self.active_branches
    lastCollect,      \* the last collect_* call: its name and its inputs
    \* ---- functions without state (SpecCalls) ----
    call,             \* the last call: function, arguments and result
    \* ---- the table of the window and its pull button (SpecPull) ----
    table,            \* self.entries: the rows, each with its URL and its
                      \* pull checkbox, in row order
    saved,            \* settings.get_repos(): URL and do_pull, in key order
    repos,            \* pull_repos: URLs of the Repository objects it has
                      \* collected and not yet handed to the queue
    ppc,              \* position of the GUI thread inside pull_repos
    buttons_enabled,  \* what set_buttons_state_while_task set last
    task_url,         \* url of the Repository of each CloneRepoTask
    task_path,        \* self.path of each CloneRepoTask
    repo_backup_path, \* self.repo_backup_path
    backup_path_input, \* the text of self.backup_path_input
    save_root_dir,    \* settings[KEY_SAVE_TO]
    dialog_row,       \* handle_cell_doubleclick: the row whose "Edit URL"
                      \* dialog is open (0: none)
    no_ui,            \* pull_repos_no_ui: the Repository objects not yet
                      \* taken by its pool, the URLs being cloned, save_to
    ops,              \* handler invocations so far
    \* ---- clone_branches of one Repository (SpecCloneBranches) ----
    cb,               \* the clone_branches call: position, locals, result
    bw,               \* per submitted branch: its clone_from call
    bdir              \* content of the directories of the branch clones

cloneVars == <<destDir, backupDir, pc, calls, max_retries, attempt,
               successful_clone, cloned_to, repo, self_base, outcome, signal,
               destBefore, backupBefore, existed, invocations, sleeps,
               lastEvent, fsFailed, clonedToBefore, repoBefore>>

queueVars == <<queue, ongoing_tasks, is_running, dpc, dtask, original_run,
               tstate, body, decCalls, submitOrder, dequeueOrder,
               handedOrder, resetSeen, stopped, refused>>

branchVars == <<repo_branches, active_branches, lastCollect>>

callVars == <<call>>

pullVars == <<table, saved, repos, ppc, buttons_enabled, task_url, task_path,
              repo_backup_path, backup_path_input, save_root_dir, dialog_row,
              no_ui, ops>>

cbVars == <<cb, bw, bdir>>

restVars == <<branchVars, callVars, pullVars, cbVars>>

vars == <<cloneVars, queueVars, branchVars, callVars, pullVars, cbVars>>

Tasks == 1..NumTasks

(***************************************************************************)
(* Initial states.                                                         *)
(***************************************************************************)
\* self before any clone_from: the base class is not initialised
NoBase == [at |-> 0, is_repo |-> FALSE]

InitClone ==
    /\ destDir \in {ABSENT, ORIG}
    /\ backupDir \in {ABSENT, STALE}
    /\ pc = "idle"
    /\ calls = 0
    /\ max_retries \in 1..MaxRetriesBound
    /\ attempt = 0
    /\ successful_clone = FALSE
    /\ cloned_to = ""
    /\ repo = 0
    /\ self_base = NoBase
    /\ outcome = "none"
    /\ signal = "none"
    /\ destBefore = ABSENT
    /\ backupBefore = ABSENT
    /\ existed = FALSE
    /\ invocations = 0
    /\ sleeps = 0
    /\ lastEvent = "none"
    /\ fsFailed = FALSE
    /\ clonedToBefore = ""
    /\ repoBefore = 0

InitQueue ==
    /\ queue = <<>>
    /\ ongoing_tasks = 0
    /\ is_running = TRUE
    /\ dpc = "top"
    /\ dtask = 0
    /\ original_run = 0
    /\ tstate = [t \in Tasks |-> "new"]
    /\ body = [t \in Tasks |-> 0]
    /\ decCalls = [t \in Tasks |-> 0]
    /\ submitOrder = <<>>
    /\ dequeueOrder = <<>>
    /\ handedOrder = <<>>
    /\ resetSeen = FALSE
    /\ stopped = [pc |-> "none"]
    /\ refused = FALSE

InitBranches ==
    /\ repo_branches = <<>>
    /\ active_branches = <<>>
    /\ lastCollect = [op |-> "none"]

InitCalls == call = [fn |-> "none"]

\* clone_branches has not been called: no pool, no branch clone
NoCloneBranches ==
    [pc |-> "none", main |-> <<>>, only_active |-> FALSE,
     branch_list |-> <<>>, max_workers |-> 0, result |-> "none"]

InitCloneBranches ==
    /\ cb = NoCloneBranches
    /\ bw = <<>>
    /\ bdir = <<>>

\* the "repos" section of the settings file found at start
SavedConfigs ==
    { <<>>,
      << [url |-> <<"https:", "/", "/", "github.com", "/", "acme", "/",
                    "widgets">>, pull |-> TRUE] >>,
      << [url |-> <<"https:", "/", "/", "github.com", "/", "other", "/",
                    "widgets">>, pull |-> FALSE] >> }

\* directories: the root of the backups the settings file names, and
\* another one
RootBackups == << <<"root">>, <<"backups">> >>
RootElsewhere == << <<"root">>, <<"elsewhere">> >>

\* the window after __init__, which ends with load_saved_repos()
InitPull ==
    /\ saved \in SavedConfigs
    /\ table = saved
    /\ repos = <<>>
    /\ ppc = "idle"
    /\ buttons_enabled = TRUE
    /\ task_url = [t \in Tasks |-> <<>>]
    /\ task_path = [t \in Tasks |-> <<>>]
    /\ repo_backup_path = RootBackups
    /\ backup_path_input = RootBackups
    /\ save_root_dir = RootBackups
    /\ dialog_row = 0
    /\ no_ui = [repos |-> <<>>, running |-> {}, save_to |-> <<>>]
    /\ ops = 0

\* a first start, without repositories in the settings
Init ==
    /\ InitClone /\ InitQueue /\ InitBranches /\ InitCalls /\ InitPull
    /\ InitCloneBranches
    /\ saved = <<>>

(***************************************************************************)
(* Repository.__remove_dir: shutil.rmtree wrapped in try/except.  It never *)
(* raises.  On a path that does not exist it deletes nothing; on a         *)
(* directory it either deletes it, or fails and leaves it whole, partly    *)
(* deleted, or emptied with only the final rmdir failed.                   *)
(***************************************************************************)
remove_dir(dir) ==
    IF dir = ABSENT THEN {ABSENT}
    ELSE IF dir = EMPTY THEN {ABSENT, EMPTY}
    ELSE {ABSENT, dir, DAMAGED, EMPTY}

(***************************************************************************)
(* os.rename / Path.rename of a directory: possible when the source exists *)
(* and the target does not, or (on POSIX) is an empty directory.  The      *)
(* actions that rename can also fail where the rename is possible.         *)
(***************************************************************************)
CanRename(src, dst) == Exists(src) /\ Vacant(dst)

(***************************************************************************)
(* What a failed git clone leaves at the destination: a directory that     *)
(* holds something is refused and left alone, otherwise the destination is *)
(* as it was or holds a partial tree.                                      *)
(***************************************************************************)
CloneFailureLeaves(dir) ==
    IF Vacant(dir) THEN {dir, PARTIAL} ELSE {dir}

(***************************************************************************)
(* clone_from, lines 72-78: os.makedirs(dest, exist_ok=True) when the dest *)
(* argument does not exist.  dest is clone_dest itself (the name of the    *)
(* repository is in dest.name and no head or branch segment is appended)   *)
(* or a directory above it.  "none": dest exists; "above": dest was        *)
(* created above clone_dest; "clone_dest": dest was created and is         *)
(* clone_dest; "raised": makedirs raised.                                  *)
(***************************************************************************)
MakedirsOutcomes(dir) ==
    IF dir = ABSENT THEN {"none", "above", "clone_dest", "raised"}
    ELSE {"none"}

(***************************************************************************)
(* clone_from, lines 67-94: resolve the destination, test whether it       *)
(* exists, and on an existing destination assign cloned_to.                *)
(***************************************************************************)
clone_from_begin ==
    /\ pc = "idle"
    /\ calls < MaxCalls
    /\ calls' = calls + 1
    /\ destBefore' = destDir
    /\ backupBefore' = backupDir
    /\ \E mk \in MakedirsOutcomes(destDir) :
          /\ destDir' = IF mk = "clone_dest" THEN EMPTY ELSE destDir
          /\ existed' = (mk # "raised" /\ Exists(destDir'))
          /\ cloned_to' = IF existed' THEN "clone_dest" ELSE cloned_to
          /\ fsFailed' = (mk = "raised")
          /\ lastEvent' = IF mk = "raised" THEN "makedirs_raised" ELSE "none"
          /\ outcome' = IF mk = "raised" THEN "raised" ELSE "none"
          /\ pc' = IF mk = "raised" THEN "emit"
                   ELSE IF existed' THEN "set_backup_dir" ELSE "clone"
    /\ attempt' = 0
    /\ successful_clone' = FALSE
    /\ invocations' = 0
    /\ sleeps' = 0
    /\ signal' = "none"
    /\ clonedToBefore' = cloned_to
    /\ repoBefore' = repo
    /\ UNCHANGED queueVars
    /\ UNCHANGED restVars
    /\ UNCHANGED <<backupDir, max_retries, repo, self_base>>

(***************************************************************************)
(* set_backup_dir, lines 263-265: a backup-<name> directory exists and is  *)
(* deleted.                                                                *)
(***************************************************************************)
set_backup_dir_remove_stale ==
    /\ pc = "set_backup_dir"
    /\ Exists(backupDir)
    /\ \E r \in remove_dir(backupDir) :
          /\ backupDir' = r
          /\ fsFailed' = (fsFailed \/ r # ABSENT)
    /\ pc' = "backup_rename"
    /\ UNCHANGED queueVars
    /\ UNCHANGED restVars
    /\ UNCHANGED <<clonedToBefore, repoBefore, self_base>>
    /\ UNCHANGED <<destDir, calls, max_retries, attempt, successful_clone,
                   cloned_to, repo, outcome, signal, destBefore,
                   backupBefore, existed, invocations, sleeps, lastEvent>>

(***************************************************************************)
(* set_backup_dir, lines 267-271: os.rename(dir_path, backup_dir) inside   *)
(* try/except; a failure is logged and the call goes on.                   *)
(***************************************************************************)
set_backup_dir_rename ==
    /\ pc = "backup_rename"
    /\ \/ /\ CanRename(destDir, backupDir)
          /\ backupDir' = destDir
          /\ destDir' = ABSENT
          /\ UNCHANGED fsFailed
       \/ /\ Exists(destDir)
          /\ fsFailed' = (fsFailed \/ CanRename(destDir, backupDir))
          /\ UNCHANGED <<destDir, backupDir>>
    /\ pc' = "clone"
    /\ UNCHANGED queueVars
    /\ UNCHANGED restVars
    /\ UNCHANGED <<clonedToBefore, repoBefore, self_base>>
    /\ UNCHANGED <<calls, max_retries, attempt, successful_clone, cloned_to,
                   repo, outcome, signal, destBefore, backupBefore, existed,
                   invocations, sleeps, lastEvent>>

(***************************************************************************)
(* set_backup_dir, lines 272-275: no backup-<name> directory exists, and   *)
(* the destination itself is deleted.                                      *)
(***************************************************************************)
set_backup_dir_remove_dest ==
    /\ pc = "set_backup_dir"
    /\ ~Exists(backupDir)
    /\ \E r \in remove_dir(destDir) :
          /\ destDir' = r
          /\ fsFailed' = (fsFailed \/ r # ABSENT)
    /\ pc' = "clone"
    /\ UNCHANGED queueVars
    /\ UNCHANGED restVars
    /\ UNCHANGED <<clonedToBefore, repoBefore, self_base>>
    /\ UNCHANGED <<backupDir, calls, max_retries, attempt, successful_clone,
                   cloned_to, repo, outcome, signal, destBefore,
                   backupBefore, existed, invocations, sleeps, lastEvent>>

(***************************************************************************)
(* __clone_from_basecls, lines 312-329.                                    *)
(***************************************************************************)
\* line 312: while attempt < self.max_retries
Mut_WhileCond(a, m) == a <= m
WhileCond(a, m) == a < m

\* line 323: if attempt < self.max_retries (sleep before the next attempt)
Mut_SleepCond(a, m) == a <= m
SleepCond(a, m) == a < m

\* line 318: break
Mut_AfterSuccessPc == "clone"
AfterSuccessPc == "after_clone"

\* line 315, the call: git.Repo.clone_from has written the clone and
\* returns its Repo; nothing is stored yet
clone_attempt_ok ==
    /\ pc = "clone"
    /\ WhileCond(attempt, max_retries)
    /\ Vacant(destDir)
    /\ invocations' = invocations + 1
    /\ destDir' = NewContent(calls)
    /\ lastEvent' = "invoke_ok"
    /\ pc' = "store_repo"
    /\ UNCHANGED queueVars
    /\ UNCHANGED restVars
    /\ UNCHANGED <<clonedToBefore, repoBefore, self_base>>
    /\ UNCHANGED <<backupDir, calls, max_retries, attempt, successful_clone,
                   cloned_to, repo, outcome, signal, destBefore,
                   backupBefore, existed, sleeps, fsFailed>>

\* lines 315-318: the Repo returned is stored in self.repo, which is self
\* no longer; successful_clone = True; break
clone_attempt_store ==
    /\ pc = "store_repo"
    /\ repo' = calls
    /\ self_base' = [self_base EXCEPT !.is_repo = FALSE]
    /\ successful_clone' = TRUE
    /\ pc' = AfterSuccessPc
    /\ UNCHANGED queueVars
    /\ UNCHANGED restVars
    /\ UNCHANGED <<clonedToBefore, repoBefore>>
    /\ UNCHANGED <<destDir, backupDir, calls, max_retries, attempt,
                   cloned_to, outcome, signal, destBefore, backupBefore,
                   existed, invocations, sleeps, lastEvent, fsFailed>>

\* lines 315, 319-327: git.Repo.clone_from raises
clone_attempt_fail ==
    /\ pc = "clone"
    /\ WhileCond(attempt, max_retries)
    /\ invocations' = invocations + 1
    /\ attempt' = attempt + 1
    /\ destDir' \in CloneFailureLeaves(destDir)
    /\ lastEvent' = "invoke_fail"
    /\ pc' = IF SleepCond(attempt + 1, max_retries) THEN "sleep" ELSE "clone"
    /\ UNCHANGED queueVars
    /\ UNCHANGED restVars
    /\ UNCHANGED <<clonedToBefore, repoBefore, self_base>>
    /\ UNCHANGED <<backupDir, calls, max_retries, successful_clone, cloned_to,
                   repo, outcome, signal, destBefore, backupBefore, existed,
                   sleeps, fsFailed>>

\* line 325: time.sleep(self.retry_delay)
retry_sleep ==
    /\ pc = "sleep"
    /\ sleeps' = sleeps + 1
    /\ lastEvent' = "sleep"
    /\ pc' = "clone"
    /\ UNCHANGED queueVars
    /\ UNCHANGED restVars
    /\ UNCHANGED <<clonedToBefore, repoBefore, self_base>>
    /\ UNCHANGED <<destDir, backupDir, calls, max_retries, attempt,
                   successful_clone, cloned_to, repo, outcome, signal,
                   destBefore, backupBefore, existed, invocations, fsFailed>>

\* lines 312, 329: the while condition is false, return successful_clone
clone_loop_exit ==
    /\ pc = "clone"
    /\ ~WhileCond(attempt, max_retries)
    /\ pc' = "after_clone"
    /\ UNCHANGED queueVars
    /\ UNCHANGED restVars
    /\ UNCHANGED <<clonedToBefore, repoBefore, self_base>>
    /\ UNCHANGED <<destDir, backupDir, calls, max_retries, attempt,
                   successful_clone, cloned_to, repo, outcome, signal,
                   destBefore, backupBefore, existed, invocations, sleeps,
                   lastEvent, fsFailed>>

(***************************************************************************)
(* clone_from, lines 101-103 and 125: the destination existed and the      *)
(* clone succeeded; delete the backup directory and return.                *)
(***************************************************************************)
\* lines 284-293 and 103: __remove_dir catches every exception and returns
\* a boolean that clone_from does not test; r is what deleting left.
Mut_RemoveDirOutcome(r) == IF r = ABSENT THEN "returned" ELSE "raised"
RemoveDirOutcome(r) == "returned"

Mut_remove_backup_after_success ==
    /\ pc = "after_clone"
    /\ existed
    /\ successful_clone
    /\ outcome' = "returned"
    /\ pc' = "emit"
    /\ UNCHANGED queueVars
    /\ UNCHANGED restVars
    /\ UNCHANGED <<clonedToBefore, repoBefore, self_base>>
    /\ UNCHANGED <<destDir, backupDir, fsFailed, calls, max_retries, attempt,
                   successful_clone, cloned_to, repo, signal, destBefore,
                   backupBefore, existed, invocations, sleeps, lastEvent>>

remove_backup_after_success ==
    /\ pc = "after_clone"
    /\ existed
    /\ successful_clone
    /\ \E r \in remove_dir(backupDir) :
          /\ backupDir' = r
          /\ fsFailed' = (fsFailed \/ r # ABSENT)
          /\ outcome' = RemoveDirOutcome(r)
    /\ pc' = "emit"
    /\ UNCHANGED queueVars
    /\ UNCHANGED restVars
    /\ UNCHANGED <<clonedToBefore, repoBefore, self_base>>
    /\ UNCHANGED <<destDir, calls, max_retries, attempt, successful_clone,
                   cloned_to, repo, signal, destBefore, backupBefore, existed,
                   invocations, sleeps, lastEvent>>

(***************************************************************************)
(* clone_from, lines 104-108: the destination existed and the clone        *)
(* failed; delete whatever lingers at the destination.                     *)
(***************************************************************************)
rollback_remove_dest ==
    /\ pc = "after_clone"
    /\ existed
    /\ ~successful_clone
    /\ \E r \in remove_dir(destDir) :
          /\ destDir' = r
          /\ fsFailed' = (fsFailed \/ r # ABSENT)
    /\ pc' = "rollback_rename"
    /\ UNCHANGED queueVars
    /\ UNCHANGED restVars
    /\ UNCHANGED <<clonedToBefore, repoBefore, self_base>>
    /\ UNCHANGED <<backupDir, calls, max_retries, attempt, successful_clone,
                   cloned_to, repo, outcome, signal, destBefore, backupBefore,
                   existed, invocations, sleeps, lastEvent>>

(***************************************************************************)
(* clone_from, lines 111 and 125: backup_dir.rename(clone_dest), outside   *)
(* any try: when the rename is impossible or fails the exception leaves    *)
(* clone_from.                                                             *)
(***************************************************************************)
rollback_rename ==
    /\ pc = "rollback_rename"
    /\ \/ /\ CanRename(backupDir, destDir)
          /\ destDir' = backupDir
          /\ backupDir' = ABSENT
          /\ outcome' = "returned"
          /\ UNCHANGED fsFailed
       \/ /\ outcome' = "raised"
          /\ fsFailed' = (fsFailed \/ CanRename(backupDir, destDir))
          /\ UNCHANGED <<destDir, backupDir>>
    /\ pc' = "emit"
    /\ UNCHANGED queueVars
    /\ UNCHANGED restVars
    /\ UNCHANGED <<clonedToBefore, repoBefore, self_base>>
    /\ UNCHANGED <<calls, max_retries, attempt, successful_clone, cloned_to,
                   repo, signal, destBefore, backupBefore, existed,
                   invocations, sleeps, lastEvent>>

(***************************************************************************)
(* clone_from, lines 112-119 and 125: the destination did not exist.       *)
(***************************************************************************)
finish_fresh ==
    /\ pc = "after_clone"
    /\ ~existed
    /\ cloned_to' = IF successful_clone THEN "clone_dest" ELSE cloned_to
    /\ self_base' = IF successful_clone
                    THEN [at |-> calls, is_repo |-> TRUE] ELSE self_base
    /\ repo' = IF successful_clone THEN calls ELSE repo
    /\ outcome' = "returned"
    /\ pc' = "emit"
    /\ UNCHANGED queueVars
    /\ UNCHANGED restVars
    /\ UNCHANGED <<clonedToBefore, repoBefore>>
    /\ UNCHANGED <<destDir, backupDir, calls, max_retries, attempt,
                   successful_clone, signal, destBefore, backupBefore,
                   existed, invocations, sleeps, lastEvent, fsFailed>>

(***************************************************************************)
(* CloneRepoTask.run (ui_main.py 52-59): finished is emitted when          *)
(* clone_from returns, error when it raises.                               *)
(***************************************************************************)
SignalFor(o) == IF o = "returned" THEN "finished" ELSE "error"

run_emit ==
    /\ pc = "emit"
    /\ signal' = SignalFor(outcome)
    /\ pc' = "idle"
    /\ UNCHANGED queueVars
    /\ UNCHANGED restVars
    /\ UNCHANGED <<clonedToBefore, repoBefore, self_base>>
    /\ UNCHANGED <<destDir, backupDir, calls, max_retries, attempt,
                   successful_clone, cloned_to, repo, outcome, destBefore,
                   backupBefore, existed, invocations, sleeps, lastEvent,
                   fsFailed>>

NextClone ==
    \/ clone_from_begin
    \/ set_backup_dir_remove_stale
    \/ set_backup_dir_rename
    \/ set_backup_dir_remove_dest
    \/ clone_attempt_ok
    \/ clone_attempt_store
    \/ clone_attempt_fail
    \/ retry_sleep
    \/ clone_loop_exit
    \/ remove_backup_after_success
    \/ rollback_remove_dest
    \/ rollback_rename
    \/ finish_fresh
    \/ run_emit

Spec == Init /\ [][NextClone]_vars

(***************************************************************************)
(* TaskQueue (task_queue.py; ui_main.py 62-153 holds the same code).       *)
(***************************************************************************)
\* increment_ongoing_tasks, line 37: the test made under _task_lock
Mut_IncrementAllowed(n) == n <= MAX_CONCURRENT_TASKS
IncrementAllowed(n) == n < MAX_CONCURRENT_TASKS

\* decrement_ongoing_tasks, lines 44-46
Mut_decrement_ongoing_tasks(n) == IF n > 1 THEN n - 1 ELSE n
decrement_ongoing_tasks(n) == IF n > 0 THEN n - 1 ELSE n

\* queue.get, line 64: a queue.Queue hands out its oldest element
Mut_GetIndex(q) == Len(q)
GetIndex(q) == 1

RemoveAt(q, i) == SubSeq(q, 1, i - 1) \o SubSeq(q, i + 1, Len(q))

\* wrapped_run, lines 74-75: the decrement sits in a finally block, so it
\* runs whether original_run returned or raised
Mut_DecrementInFinally(raised) == ~raised
DecrementInFinally(raised) == TRUE

\* tasks whose run has started and not yet finished
Running == {t \in Tasks : tstate[t] = "running"}

\* add_task, lines 48-50; tasks are numbered in submission order
add_task ==
    /\ Len(submitOrder) < NumTasks
    /\ LET t == Len(submitOrder) + 1 IN
          /\ queue' = Append(queue, t)
          /\ submitOrder' = Append(submitOrder, t)
          /\ tstate' = [tstate EXCEPT ![t] = "pending"]
    /\ UNCHANGED cloneVars
    /\ UNCHANGED restVars
    /\ UNCHANGED refused
    /\ UNCHANGED stopped
    /\ UNCHANGED <<ongoing_tasks, is_running, dpc, dtask, original_run, body,
                   decCalls, dequeueOrder, handedOrder, resetSeen>>

\* process_tasks, line 53: is_running is false, the loop ends
process_tasks_exit ==
    /\ dpc = "top"
    /\ ~is_running
    /\ dpc' = "exited"
    /\ UNCHANGED cloneVars
    /\ UNCHANGED restVars
    /\ UNCHANGED refused
    /\ UNCHANGED stopped
    /\ UNCHANGED <<queue, ongoing_tasks, is_running, dtask, original_run,
                   tstate, body, decCalls, submitOrder, dequeueOrder,
                   handedOrder, resetSeen>>

\* process_tasks, lines 53-56: empty queue, sleep and look again
process_tasks_idle ==
    /\ dpc = "top"
    /\ is_running
    /\ Len(queue) = 0
    /\ UNCHANGED cloneVars
    /\ UNCHANGED restVars
    /\ UNCHANGED queueVars

\* process_tasks, lines 53-60: peek at the head without taking it
process_tasks_peek ==
    /\ dpc = "top"
    /\ is_running
    /\ Len(queue) > 0
    /\ dtask' = queue[1]
    /\ dpc' = "inc"
    /\ UNCHANGED cloneVars
    /\ UNCHANGED restVars
    /\ UNCHANGED refused
    /\ UNCHANGED stopped
    /\ UNCHANGED <<queue, ongoing_tasks, is_running, original_run, tstate,
                   body, decCalls, submitOrder, dequeueOrder, handedOrder,
                   resetSeen>>

\* process_tasks, line 63: increment_ongoing_tasks() returns True
process_tasks_increment ==
    /\ dpc = "inc"
    /\ IncrementAllowed(ongoing_tasks)
    /\ ongoing_tasks' = ongoing_tasks + 1
    /\ dpc' = "get"
    /\ UNCHANGED cloneVars
    /\ UNCHANGED restVars
    /\ UNCHANGED refused
    /\ UNCHANGED stopped
    /\ UNCHANGED <<queue, is_running, dtask, original_run, tstate, body,
                   decCalls, submitOrder, dequeueOrder, handedOrder,
                   resetSeen>>

\* process_tasks, lines 63, 84-88: the cap is reached, sleep and retry
\* where the loop goes on after increment_ongoing_tasks() returned False:
\* the else branch sleeps and continues at the top, line 64 is not reached
Mut_AfterRefusedPc == "get"
AfterRefusedPc == "top"

process_tasks_cap_reached ==
    /\ dpc = "inc"
    /\ ~IncrementAllowed(ongoing_tasks)
    /\ dtask' = IF AfterRefusedPc = "top" THEN 0 ELSE dtask
    /\ dpc' = AfterRefusedPc
    /\ refused' = TRUE
    /\ UNCHANGED cloneVars
    /\ UNCHANGED restVars
    /\ UNCHANGED stopped
    /\ UNCHANGED <<queue, ongoing_tasks, is_running, original_run, tstate,
                   body, decCalls, submitOrder, dequeueOrder, handedOrder,
                   resetSeen>>

\* process_tasks, line 64: task = self.queue.get(timeout=1)
process_tasks_get ==
    /\ dpc = "get"
    /\ LET i == GetIndex(queue) IN
          /\ dtask' = queue[i]
          /\ queue' = RemoveAt(queue, i)
          /\ dequeueOrder' = Append(dequeueOrder, queue[i])
          /\ tstate' = [tstate EXCEPT ![queue[i]] = "dequeued"]
    /\ dpc' = "log"
    /\ UNCHANGED cloneVars
    /\ UNCHANGED restVars
    /\ UNCHANGED refused
    /\ UNCHANGED stopped
    /\ UNCHANGED <<ongoing_tasks, is_running, original_run, body, decCalls,
                   submitOrder, handedOrder, resetSeen>>

\* process_tasks, lines 65-78: the log line is written, original_run is
\* rebound to this task's run and task.run becomes wrapped_run
process_tasks_wrap ==
    /\ dpc = "log"
    /\ original_run' = dtask
    /\ dpc' = "start"
    /\ UNCHANGED cloneVars
    /\ UNCHANGED restVars
    /\ UNCHANGED refused
    /\ UNCHANGED stopped
    /\ UNCHANGED <<queue, ongoing_tasks, is_running, dtask, tstate, body,
                   decCalls, submitOrder, dequeueOrder, handedOrder,
                   resetSeen>>

\* process_tasks, lines 65, 89: task.entry.get_url() raises inside the try
process_tasks_raise ==
    /\ dpc = "log"
    /\ dpc' = "except"
    /\ UNCHANGED cloneVars
    /\ UNCHANGED restVars
    /\ UNCHANGED refused
    /\ UNCHANGED stopped
    /\ UNCHANGED <<queue, ongoing_tasks, is_running, dtask, original_run,
                   tstate, body, decCalls, submitOrder, dequeueOrder,
                   handedOrder, resetSeen>>

\* process_tasks, lines 89-91: the except branch decrements the counter
process_tasks_except ==
    /\ dpc = "except"
    /\ ongoing_tasks' = decrement_ongoing_tasks(ongoing_tasks)
    /\ decCalls' = [decCalls EXCEPT ![dtask] = @ + 1]
    /\ tstate' = [tstate EXCEPT ![dtask] = "dropped"]
    /\ dtask' = 0
    /\ dpc' = "top"
    /\ refused' = FALSE
    /\ UNCHANGED cloneVars
    /\ UNCHANGED restVars
    /\ UNCHANGED stopped
    /\ UNCHANGED <<queue, is_running, original_run, body, submitOrder,
                   dequeueOrder, handedOrder, resetSeen>>

\* process_tasks, lines 81-83: thread_pool.start(task)
process_tasks_start ==
    /\ dpc = "start"
    /\ tstate' = [tstate EXCEPT ![dtask] = "pooled"]
    /\ handedOrder' = Append(handedOrder, dtask)
    /\ dtask' = 0
    /\ dpc' = "top"
    /\ refused' = FALSE
    /\ UNCHANGED cloneVars
    /\ UNCHANGED restVars
    /\ UNCHANGED stopped
    /\ UNCHANGED <<queue, ongoing_tasks, is_running, original_run, body,
                   decCalls, submitOrder, dequeueOrder, resetSeen>>

\* wrapped_run, lines 69-71: a pool thread enters wrapped_run and calls
\* original_run(), whatever that variable is bound to at this moment
wrapped_run_start(t) ==
    /\ tstate[t] = "pooled"
    /\ Cardinality(Running) < MaxThreadCount
    /\ tstate' = [tstate EXCEPT ![t] = "running"]
    /\ body' = [body EXCEPT ![t] = original_run]
    /\ UNCHANGED cloneVars
    /\ UNCHANGED restVars
    /\ UNCHANGED refused
    /\ UNCHANGED stopped
    /\ UNCHANGED <<queue, ongoing_tasks, is_running, dpc, dtask, original_run,
                   decCalls, submitOrder, dequeueOrder, handedOrder,
                   resetSeen>>

\* wrapped_run, lines 71-76: original_run() returns or raises, then the
\* finally block decrements the counter
wrapped_run_finish(t) ==
    /\ tstate[t] = "running"
    /\ \E raised \in BOOLEAN :
          /\ IF DecrementInFinally(raised)
             THEN /\ ongoing_tasks' = decrement_ongoing_tasks(ongoing_tasks)
                  /\ decCalls' = [decCalls EXCEPT ![t] = @ + 1]
             ELSE UNCHANGED <<ongoing_tasks, decCalls>>
          /\ tstate' = [tstate EXCEPT ![t] = IF raised THEN "raised" ELSE "done"]
    /\ UNCHANGED cloneVars
    /\ UNCHANGED restVars
    /\ UNCHANGED refused
    /\ UNCHANGED stopped
    /\ UNCHANGED <<queue, is_running, dpc, dtask, original_run, body,
                   submitOrder, dequeueOrder, handedOrder, resetSeen>>

\* reset_task_counter, lines 102-105
reset_task_counter ==
    /\ ongoing_tasks' = 0
    /\ resetSeen' = TRUE
    /\ UNCHANGED cloneVars
    /\ UNCHANGED restVars
    /\ UNCHANGED refused
    /\ UNCHANGED stopped
    /\ UNCHANGED <<queue, is_running, dpc, dtask, original_run, tstate, body,
                   decCalls, submitOrder, dequeueOrder, handedOrder>>

\* worker_thread.wait(), line 97: returns once the dispatcher thread, which
\* runs process_tasks, has finished
Mut_StopWaitOver(d) == TRUE
StopWaitOver(d) == d = "exited"

\* stop, lines 93-96: clears the flag, then waits for the dispatcher thread
stop ==
    /\ is_running
    /\ is_running' = FALSE
    /\ stopped' = [pc |-> "waiting"]
    /\ UNCHANGED cloneVars
    /\ UNCHANGED restVars
    /\ UNCHANGED refused
    /\ UNCHANGED <<queue, ongoing_tasks, dpc, dtask, original_run, tstate,
                   body, decCalls, submitOrder, dequeueOrder, handedOrder,
                   resetSeen>>

\* stop, line 97: the wait is over and stop returns; the thread pool is not
\* waited for
stop_return ==
    /\ stopped.pc = "waiting"
    /\ StopWaitOver(dpc)
    /\ stopped' = [pc |-> "returned", queue |-> queue,
                   in_flight |-> {t \in Tasks :
                                    tstate[t] \in {"pooled", "running"}},
                   ongoing |-> ongoing_tasks]
    /\ UNCHANGED cloneVars
    /\ UNCHANGED restVars
    /\ UNCHANGED refused
    /\ UNCHANGED <<queue, ongoing_tasks, is_running, dpc, dtask, original_run,
                   tstate, body, decCalls, submitOrder, dequeueOrder,
                   handedOrder, resetSeen>>

wrapped_run_starts == \E t \in Tasks : wrapped_run_start(t)
wrapped_run_finishes == \E t \in Tasks : wrapped_run_finish(t)

NextQueue ==
    \/ add_task
    \/ process_tasks_exit
    \/ process_tasks_idle
    \/ process_tasks_peek
    \/ process_tasks_increment
    \/ process_tasks_cap_reached
    \/ process_tasks_get
    \/ process_tasks_wrap
    \/ process_tasks_raise
    \/ process_tasks_except
    \/ process_tasks_start
    \/ stop_return
    \/ wrapped_run_starts
    \/ wrapped_run_finishes
    \/ reset_task_counter
    \/ stop

\* SpecQueue starts with the clone protocol at rest in one fixed state
InitQ ==
    /\ Init
    /\ destDir = ABSENT
    /\ backupDir = ABSENT
    /\ max_retries = DefaultMaxRetries

\* SpecPull starts there too, with any of the settings files
InitWindow ==
    /\ InitClone /\ InitQueue /\ InitBranches /\ InitCalls /\ InitPull
    /\ InitCloneBranches
    /\ destDir = ABSENT
    /\ backupDir = ABSENT
    /\ max_retries = DefaultMaxRetries

SpecQueue == InitQ /\ [][NextQueue]_vars

(***************************************************************************)
(* The same queue with its threads scheduled fairly: the dispatcher thread *)
(* (a QThread running process_tasks) keeps taking steps, and so does every *)
(* pool thread that has a wrapped_run to enter or an original_run() that   *)
(* terminates.                                                             *)
(***************************************************************************)
dispatcher_step ==
    \/ process_tasks_exit
    \/ process_tasks_peek
    \/ process_tasks_increment
    \/ process_tasks_cap_reached
    \/ process_tasks_get
    \/ process_tasks_wrap
    \/ process_tasks_raise
    \/ process_tasks_except
    \/ process_tasks_start

FairThreads ==
    /\ WF_vars(dispatcher_step)
    /\ \A t \in Tasks : WF_vars(wrapped_run_start(t))
    /\ \A t \in Tasks : WF_vars(wrapped_run_finish(t))

SpecQueueFair == InitQ /\ [][NextQueue]_vars /\ FairThreads

(***************************************************************************)
(* Repository._filter_active, git.py 223-257.  Time stamps are clock       *)
(* ticks; datetime.fromtimestamp(ts).date() keeps the day of a tick.       *)
(***************************************************************************)
Ticks == 0..(MaxDay * TicksPerDay + TicksPerDay - 1)

\* datetime.fromtimestamp(ts).date(), datetime.now().date()
DateOf(ts) == ts \div TicksPerDay

\* line 238: if active_cutoff_days <= 0
Mut_CutoffDisabled(c) == c < 0
CutoffDisabled(c) == c <= 0

\* line 254: return commit_date >= cutoff_date
Mut_DateNotOlder(commit_date, cutoff_date) == commit_date > cutoff_date
DateNotOlder(commit_date, cutoff_date) == commit_date >= cutoff_date

\* a name is the sequence of its characters' tokens, "/" being one of them;
\* None and the empty string are the empty sequence (line 232: not branch_ref)
NoBranch == <<>>

\* line 244: branch_ref.commit is read only inside the try block
filter_consults_commit(branch, cutoff) ==
    branch # NoBranch /\ ~CutoffDisabled(cutoff)

\* branch: a ref name or NoBranch; commit: [ok, ts], ok false when resolving
\* the commit or its date raises
filter_active(branch, cutoff, commit, now) ==
    IF branch = NoBranch THEN FALSE
    ELSE IF CutoffDisabled(cutoff) THEN TRUE
    ELSE IF ~commit.ok THEN FALSE
    ELSE DateNotOlder(DateOf(commit.ts), DateOf(now - cutoff * TicksPerDay))

CutoffChoices == {-1, 0, 1, COMMIT_CUTOFF_DAYS}

\* one call of _filter_active on its own
call_filter_active ==
    /\ call.fn = "none"
    /\ \E branch \in {NoBranch, <<"origin", "/", "a">>}, cutoff \in CutoffChoices,
          ok \in BOOLEAN, ts \in Ticks, now \in Ticks :
          call' = [fn |-> "_filter_active", branch |-> branch,
                   cutoff |-> cutoff, commitOk |-> ok, commitTs |-> ts,
                   now |-> now,
                   consulted |-> filter_consults_commit(branch, cutoff),
                   result |-> filter_active(branch, cutoff,
                                            [ok |-> ok, ts |-> ts], now)]
    /\ UNCHANGED <<cloneVars, queueVars, branchVars, pullVars, cbVars>>

(***************************************************************************)
(* Repository.collect_branches and collect_active_branches, git.py 152-207.*)
(***************************************************************************)
\* str.split('/', 1)[-1]: what follows the first "/", the whole name if none
RECURSIVE AfterFirstSlash(_)
AfterFirstSlash(name) ==
    IF name = <<>> THEN <<>>
    ELSE IF Head(name) = "/" THEN Tail(name)
    ELSE AfterFirstSlash(Tail(name))

HasSlash(name) == \E i \in 1..Len(name) : name[i] = "/"

split_1_last(name) == IF HasSlash(name) THEN AfterFirstSlash(name) ELSE name

\* the refs a remote can report
RemoteRefs ==
    { <<"origin", "/", "HEAD">>,
      <<"origin", "/", "main">>,
      <<"origin", "/", "feature", "/", "login">> }

\* self.repo.remote().refs: the remote's refs in any order, none twice
RefSeqs ==
    UNION { { f \in [1..n -> RemoteRefs] :
                \A i, j \in 1..n : f[i] = f[j] => i = j } :
            n \in 0..Cardinality(RemoteRefs) }

\* self.head_name: "" as __init__ leaves it, or a default branch name
HeadNames == { <<>>, <<"main">> }

\* the clock reading of the refresh and the commits the refs point at
NowTick == MaxDay * TicksPerDay
CommitInfos ==
    { [ok |-> FALSE, ts |-> 0], [ok |-> TRUE, ts |-> 0],
      [ok |-> TRUE, ts |-> NowTick] }

\* self.cloned_to and self.cloned_to.exists(), and self.repo:
\* "unset" cloned_to is "", "missing" the directory is gone, "norepo" the
\* directory exists but self.repo is None, "present" a clone is there
ClonedDirStates == {"unset", "missing", "norepo", "present"}

\* list.remove(x): drops the first element equal to x
RECURSIVE list_remove(_, _)
list_remove(list, x) ==
    IF list = <<>> THEN <<>>
    ELSE IF Head(list) = x THEN Tail(list)
    ELSE <<Head(list)>> \o list_remove(Tail(list), x)

\* lines 179-184: for branch in self.repo_branches, removing from the list
\* that is being iterated; i is the iterator's index
RECURSIVE remove_while_iterating(_, _, _)
remove_while_iterating(list, i, removes) ==
    IF i > Len(list) THEN list
    ELSE IF split_1_last(list[i]) \in removes
         THEN remove_while_iterating(list_remove(list, list[i]), i + 1,
                                     removes)
         ELSE remove_while_iterating(list, i + 1, removes)

\* lines 174-184: the refs without origin/HEAD and the default branch
collected_refs(refs, head_name) ==
    remove_while_iterating(refs, 1, {<<"HEAD">>, head_name})

\* lines 192-207: the new active_branches
Mut_collect_active(known, active, cutoff, commits) ==
    LET RECURSIVE UpToFirstError(_)
        UpToFirstError(list) ==
            IF list = <<>> \/ ~commits[Head(list)].ok THEN <<>>
            ELSE <<Head(list)>> \o UpToFirstError(Tail(list))
    IN  IF known = <<>> THEN active
        ELSE SelectSeq(IF cutoff > 0 THEN UpToFirstError(known) ELSE known,
                       LAMBDA b : filter_active(b, cutoff, commits[b],
                                                NowTick))
collect_active(known, active, cutoff, commits) ==
    IF known = <<>> THEN active
    ELSE SelectSeq(known,
                   LAMBDA b : filter_active(b, cutoff, commits[b], NowTick))

NoCommits == [r \in RemoteRefs |-> [ok |-> FALSE, ts |-> 0]]

collect_branches ==
    /\ \E dir \in ClonedDirStates :
       \E refs \in (IF dir = "present" THEN RefSeqs ELSE {<<>>}),
          head_name \in (IF dir = "present" THEN HeadNames ELSE {<<>>}),
          commits \in (IF dir = "present" THEN [RemoteRefs -> CommitInfos]
                                          ELSE {NoCommits}) :
          LET known == IF dir = "present"
                       THEN collected_refs(refs, head_name)
                       ELSE <<>>
          IN /\ repo_branches' = known
             /\ active_branches' =
                   IF dir = "present"
                   THEN collect_active(known, active_branches,
                                       COMMIT_CUTOFF_DAYS, commits)
                   ELSE active_branches
             /\ lastCollect' = [op |-> "collect_branches", dir |-> dir,
                                refs |-> refs, head_name |-> head_name,
                                cutoff |-> COMMIT_CUTOFF_DAYS,
                                commits |-> commits,
                                raised |-> (dir = "norepo")]
    /\ UNCHANGED <<cloneVars, queueVars, callVars, pullVars, cbVars>>

collect_active_branches ==
    /\ \E cutoff \in {0, COMMIT_CUTOFF_DAYS},
          commits \in [RemoteRefs -> CommitInfos] :
          /\ active_branches' =
                collect_active(repo_branches, active_branches, cutoff,
                               commits)
          /\ lastCollect' = [op |-> "collect_active_branches",
                             dir |-> "present", refs |-> repo_branches,
                             head_name |-> <<>>, cutoff |-> cutoff,
                             commits |-> commits, raised |-> FALSE]
    /\ UNCHANGED repo_branches
    /\ UNCHANGED <<cloneVars, queueVars, callVars, pullVars, cbVars>>

(***************************************************************************)
(* The destination of a branch clone, git.py 80-84.                        *)
(***************************************************************************)
NameTokens == {"origin", "feature", "login", "/"}

\* the non-empty names of at most MaxNameLen tokens
BranchNames == UNION { [1..n -> NameTokens] : n \in 1..MaxNameLen }

\* str.replace('/', '-')
replace_slash(name) ==
    [i \in 1..Len(name) |-> IF name[i] = "/" THEN "-" ELSE name[i]]

\* line 83: kwargs.get("branch").split('/', 1)[-1].replace('/', '-')
Mut_sanitised_trail(branch) == split_1_last(branch)
sanitised_trail(branch) == replace_slash(split_1_last(branch))

\* clone_from(dest, branch=branch) up to the choice of clone_dest
call_clone_dest ==
    /\ call.fn = "none"
    /\ \E branch \in BranchNames :
          call' = [fn |-> "clone_dest", branch |-> branch,
                   trail |-> sanitised_trail(branch)]
    /\ UNCHANGED <<cloneVars, queueVars, branchVars, pullVars, cbVars>>

(***************************************************************************)
(* parse_owner_name_from_url and validate_github_url, git.py 353-423.      *)
(* A URL is the sequence of its tokens: "https:", "/", a host, a path      *)
(* segment, "?q".                                                          *)
(***************************************************************************)
UrlHosts ==
    {"github.com", "gitlab.com", "GitHub.com", "github.com:443",
     "[github.com"}

UrlPaths == UNION { [1..n -> {"/", "acme", "widgets"}] : n \in 0..MaxPathLen }

\* scheme, "//", host and query are each present or not
UrlShapes ==
    { sh \in [scheme : BOOLEAN, slashes : BOOLEAN, host : UrlHosts \cup {""},
              path : UrlPaths, query : BOOLEAN] :
        (sh.host = "github.com:443") => sh.slashes }

\* the text of a URL of a given shape
UrlText(sh) ==
    (IF sh.scheme THEN <<"https:">> ELSE <<>>)
    \o (IF sh.slashes THEN <<"/", "/">> ELSE <<>>)
    \o (IF sh.host # "" THEN <<sh.host>> ELSE <<>>)
    \o sh.path
    \o (IF sh.query THEN <<"?q">> ELSE <<>>)

\* the longest prefix of s without a token of stops
RECURSIVE UpTo(_, _)
UpTo(s, stops) ==
    IF s = <<>> \/ Head(s) \in stops THEN <<>>
    ELSE <<Head(s)>> \o UpTo(Tail(s), stops)

\* urllib.parse.urlparse: ValueError for a netloc with "[" and no "]",
\* otherwise the netloc and the path
urlparse(url) ==
    LET rest == IF url # <<>> /\ Head(url) = "https:" THEN Tail(url) ELSE url
        hasNetloc == Len(rest) >= 2 /\ rest[1] = "/" /\ rest[2] = "/"
        afterSlashes == SubSeq(rest, 3, Len(rest))
        netloc == IF hasNetloc THEN UpTo(afterSlashes, {"/", "?q"}) ELSE <<>>
        afterNetloc == IF hasNetloc
                       THEN SubSeq(afterSlashes, Len(netloc) + 1,
                                   Len(afterSlashes))
                       ELSE rest
    IN IF \E i \in 1..Len(netloc) : netloc[i] = "[github.com"
       THEN [raised |-> TRUE, netloc |-> <<>>, path |-> <<>>]
       ELSE [raised |-> FALSE, netloc |-> netloc,
             path |-> UpTo(afterNetloc, {"?q"})]

\* str.split('/'): the runs of tokens between the "/" tokens
RECURSIVE split_slash(_)
split_slash(s) ==
    IF s = <<>> THEN << <<>> >>
    ELSE LET r == split_slash(Tail(s))
         IN IF Head(s) = "/" THEN << <<>> >> \o r
            ELSE << <<Head(s)>> \o Head(r) >> \o Tail(r)

\* line 365: [i for i in _path.split('/') if i]
path_split(path) == SelectSeq(split_slash(path), LAMBDA x : x # <<>>)

\* lines 353-374; "" is the empty sequence
parse_owner_name_from_url(url) ==
    LET parsed == urlparse(url)
        _path_split == path_split(parsed.path)
    IN IF parsed.raised
       THEN [raised |-> TRUE, owner |-> <<>>, name |-> <<>>]
       ELSE IF Len(_path_split) > 1
            THEN [raised |-> FALSE, owner |-> _path_split[1],
                  name |-> _path_split[2]]
            ELSE [raised |-> FALSE, owner |-> <<>>, name |-> <<>>]

accepted_domains == { <<"github.com">> }

\* lines 376-423
validate_github_url(url) ==
    LET parsed == urlparse(url)
        on == parse_owner_name_from_url(url)
    IN IF parsed.raised THEN [raised |-> TRUE, result |-> FALSE]
       ELSE IF parsed.netloc \in accepted_domains
            THEN IF parsed.path = <<>>
                 THEN [raised |-> FALSE, result |-> FALSE]
                 ELSE IF on.owner = <<>> \/ on.name = <<>>
                      THEN [raised |-> FALSE, result |-> FALSE]
                      ELSE [raised |-> FALSE, result |-> TRUE]
            ELSE [raised |-> FALSE, result |-> FALSE]

call_parse_owner_name_from_url ==
    /\ call.fn = "none"
    /\ \E sh \in UrlShapes :
          LET r == parse_owner_name_from_url(UrlText(sh))
          IN call' = [fn |-> "parse_owner_name_from_url", shape |-> sh,
                      url |-> UrlText(sh), raised |-> r.raised,
                      owner |-> r.owner, name |-> r.name]
    /\ UNCHANGED <<cloneVars, queueVars, branchVars, pullVars, cbVars>>

call_validate_github_url ==
    /\ call.fn = "none"
    /\ \E sh \in UrlShapes :
          LET r == validate_github_url(UrlText(sh))
          IN call' = [fn |-> "validate_github_url", shape |-> sh,
                      url |-> UrlText(sh), raised |-> r.raised,
                      result |-> r.result]
    /\ UNCHANGED <<cloneVars, queueVars, branchVars, pullVars, cbVars>>

(***************************************************************************)
(* Repository._get_head, git.py 209-221.                                   *)
(***************************************************************************)
HttpStatuses == {200, 404, 500}

\* what response.json() finds in the body: no JSON at all, a JSON list, an
\* object without default_branch, with default_branch null, with
\* default_branch "develop"
Payloads == {"not_json", "list", "no_default_branch", "null_default_branch",
             "develop"}

\* net_ok: requests.get returned a response; the result is the returned
\* value, "" the empty string and "None" Python's None
get_head(net_ok, status, payload) ==
    IF ~net_ok THEN ""                              \* get raises
    ELSE IF status >= 400 THEN ""                   \* raise_for_status raises
    ELSE IF payload \in {"not_json", "list"} THEN ""  \* json() or .get raises
    ELSE IF payload = "no_default_branch" THEN "main"
    ELSE IF payload = "null_default_branch" THEN "None"
    ELSE payload

call_get_head ==
    /\ call.fn = "none"
    /\ \E net_ok \in BOOLEAN, status \in HttpStatuses, payload \in Payloads :
          call' = [fn |-> "_get_head", net_ok |-> net_ok, status |-> status,
                   payload |-> payload, raised |-> FALSE,
                   result |-> get_head(net_ok, status, payload)]
    /\ UNCHANGED <<cloneVars, queueVars, branchVars, pullVars, cbVars>>

(***************************************************************************)
(* The destination of a clone, git.py 67-84.  A path is the sequence of    *)
(* its segments, a segment the sequence of its tokens.                     *)
(***************************************************************************)
\* str.lower() of one token
LowerTok(t) == IF t = "Widgets" THEN "widgets" ELSE t

lower(name) == [i \in 1..Len(name) |-> LowerTok(name[i])]

\* sub in s, for strings
Contains(sub, s) ==
    \E i \in 1..(Len(s) + 1) :
       /\ i + Len(sub) - 1 <= Len(s)
       /\ SubSeq(s, i, i + Len(sub) - 1) = sub

\* pathlib: path / segment; path / "" is path itself
path_join(path, segment) ==
    IF segment = <<>> THEN path ELSE Append(path, segment)

\* lines 75-77: the repository's name is appended unless the last segment
\* of dest contains it
dest_with_name(dest, name) ==
    IF ~Contains(lower(name), lower(dest[Len(dest)]))
    THEN path_join(dest, name)
    ELSE dest

\* lines 80-84; branch is <<>> when clone_from gets no branch
clone_dest_of(dest, name, head_name, branch) ==
    IF branch # <<>>
    THEN path_join(dest_with_name(dest, name), sanitised_trail(branch))
    ELSE path_join(dest_with_name(dest, name), replace_slash(head_name))

\* the directories a caller passes as dest: below a root, a directory
\* named without, with, or exactly as the repository
DestArgs ==
    { << <<"root">>, <<"backups">> >>,
      << <<"root">>, <<"widgets">> >>,
      << <<"root">>, <<"Widgets">> >>,
      << <<"root">>, <<"my-", "widgets">> >> }

\* self.head_name: "" as __init__ leaves it, or a name assigned to it
DefaultHeads == HeadNames \cup { <<"release", "/", "v1">> }

\* clone_from(dest) without a branch, up to the choice of clone_dest
call_clone_dest_default ==
    /\ call.fn = "none"
    /\ \E dest \in DestArgs, head_name \in DefaultHeads :
          call' = [fn |-> "clone_dest_default", dest_arg |-> dest,
                   name |-> <<"widgets">>, head_name |-> head_name,
                   dest |-> dest_with_name(dest, <<"widgets">>),
                   clone_dest |-> clone_dest_of(dest, <<"widgets">>,
                                                head_name, <<>>)]
    /\ UNCHANGED <<cloneVars, queueVars, branchVars, pullVars, cbVars>>

(***************************************************************************)
(* Repository.__remove_dir on a directory with one path that may resist    *)
(* removal, git.py 279-293 and 331-350.  fails[k] tells whether the k-th   *)
(* removal attempt on that path fails; writable is what os.access(path,    *)
(* os.W_OK) answers; chmod_ok tells whether os.chmod(path, S_IWUSR) works  *)
(* (it raises on an immutable file or on a file of another user);          *)
(* has_onexc tells whether the interpreter's shutil.rmtree knows the onexc *)
(* parameter (Python 3.12 and later).                                      *)
(***************************************************************************)
FailsAt(fails, k) == k <= Len(fails) /\ fails[k]

\* _rmtree_on_error, lines 343-350, called after attempt number `attempts`
\* failed: when the path is not writable, chmod and then func(path) once,
\* which is not reached when chmod raises; otherwise re-raise
rmtree_on_error(writable, chmod_ok, attempts, chmods, fails) ==
    IF ~writable
    THEN IF chmod_ok
         THEN [raised |-> FailsAt(fails, attempts + 1), writable |-> TRUE,
               attempts |-> attempts + 1, chmods |-> chmods + 1]
         ELSE [raised |-> TRUE, writable |-> FALSE,
               attempts |-> attempts, chmods |-> chmods + 1]
    ELSE [raised |-> TRUE, writable |-> writable,
          attempts |-> attempts, chmods |-> chmods]

\* one shutil.rmtree(to_remove, <handler>=_rmtree_on_error)
rmtree(writable, chmod_ok, attempts, chmods, fails) ==
    IF FailsAt(fails, attempts + 1)
    THEN rmtree_on_error(writable, chmod_ok, attempts + 1, chmods, fails)
    ELSE [raised |-> FALSE, writable |-> writable,
          attempts |-> attempts + 1, chmods |-> chmods]

\* line 288: what follows an exception of the first rmtree
SecondRmtree(has_onexc, chmod_ok, p1, fails) ==
    IF has_onexc
    THEN rmtree(p1.writable, chmod_ok, p1.attempts, p1.chmods, fails)
    ELSE p1   \* TypeError: unexpected keyword argument, caught at 289

\* lines 282-293
remove_dir_path(has_onexc, writable, chmod_ok, fails) ==
    LET p1 == rmtree(writable, chmod_ok, 0, 0, fails)
        p2 == IF p1.raised THEN SecondRmtree(has_onexc, chmod_ok, p1, fails)
              ELSE p1
    IN  [result |-> ~p2.raised, attempts |-> p2.attempts,
         chmods |-> p2.chmods]

call_remove_dir ==
    /\ call.fn = "none"
    /\ \E has_onexc \in BOOLEAN, writable \in BOOLEAN, chmod_ok \in BOOLEAN,
          fails \in [1..MaxRemovals -> BOOLEAN] :
          LET r == remove_dir_path(has_onexc, writable, chmod_ok, fails)
          IN  call' = [fn |-> "__remove_dir", has_onexc |-> has_onexc,
                       writable |-> writable, chmod_ok |-> chmod_ok,
                       fails |-> fails,
                       result |-> r.result, attempts |-> r.attempts,
                       chmods |-> r.chmods]
    /\ UNCHANGED <<cloneVars, queueVars, branchVars, pullVars, cbVars>>

(***************************************************************************)
(* _determine_max_workers, git.py 425-445.  load_factor is lf / FracDen,   *)
(* the free memory is mem / FracDen GB, max_limit is <<>> for None and     *)
(* <<n>> for the integer n.  int() of a non-negative number is its floor.  *)
(***************************************************************************)
Min(a, b) == IF a <= b THEN a ELSE b

Max(a, b) == IF a >= b THEN a ELSE b

\* line 445: return max(1, optimal_workers)
Mut_AtLeastOne(n) == n
AtLeastOne(n) == Max(1, n)

determine_max_workers(cpus, lf, mem, max_limit) ==
    LET optimal_workers == (cpus * lf) \div FracDen
        mem_limit == (mem * WorkersPerGB) \div FracDen
        limited == IF max_limit # <<>>
                   THEN Min(optimal_workers, max_limit[1])
                   ELSE optimal_workers
    IN  AtLeastOne(Min(limited, mem_limit))

\* the max_limit arguments: None or an integer
MaxLimits == { <<>> } \cup { <<n>> : n \in 0..MaxCpus }

call_determine_max_workers ==
    /\ call.fn = "none"
    /\ \E cpus \in 1..MaxCpus, lf \in 0..(2 * FracDen), mem \in 0..FracDen,
          max_limit \in MaxLimits :
          call' = [fn |-> "_determine_max_workers", cpus |-> cpus,
                   lf |-> lf, mem |-> mem, max_limit |-> max_limit,
                   result |-> determine_max_workers(cpus, lf, mem,
                                                    max_limit)]
    /\ UNCHANGED <<cloneVars, queueVars, branchVars, pullVars, cbVars>>

(***************************************************************************)
(* The arguments of a clone on their way to git, git.py 43, 98, 113, 295   *)
(* and 315.  A keyword dictionary is a set of <<key, value>> pairs, a      *)
(* positional tuple a sequence.                                            *)
(***************************************************************************)
\* dict.get(key): None is <<>>
kwargs_get(kwargs, key) ==
    IF \E p \in kwargs : p[1] = key
    THEN (CHOOSE p \in kwargs : p[1] = key)[2]
    ELSE <<>>

\* line 43: clone_from(self, dest, *args, **kwargs) called with
\* branch=branch, or without a branch
clone_from_kwargs(branch) ==
    IF branch = <<>> THEN {} ELSE { <<"branch", branch>> }

\* lines 98, 113 and 295: self.__clone_from_basecls(self.url, clone_dest,
\* args, kwargs) binds the callee's *args and **kwargs
basecls_binding(args, kwargs) ==
    [args |-> <<args, kwargs>>, kwargs |-> {}]

\* line 315: git.Repo.clone_from(self.url, dest, *args, **kwargs); what
\* follows url and dest positionally, and the keyword options
git_clone_call(b) == [positional |-> b.args, options |-> b.kwargs]

\* the branch arguments of clone_from: none, or the name of a remote ref
BranchArgs == { <<>> } \cup RemoteRefs

call_git_clone ==
    /\ call.fn = "none"
    /\ \E branch \in BranchArgs :
          LET inv == git_clone_call(
                        basecls_binding(<<>>, clone_from_kwargs(branch)))
          IN  call' = [fn |-> "git_clone", branch |-> branch,
                       positional |-> inv.positional,
                       options |-> inv.options]
    /\ UNCHANGED <<cloneVars, queueVars, branchVars, pullVars, cbVars>>

(***************************************************************************)
(* The per-branch clones of clone_branches, git.py 127-150: one            *)
(* clone_from(self.cloned_to.parent, branch=branch.name) per collected     *)
(* branch, submitted together to a thread pool.                            *)
(***************************************************************************)
\* line 260: dir_path.parent / f"backup-{dir_path.name}"
backup_dir_of(dir_path) ==
    Append(SubSeq(dir_path, 1, Len(dir_path) - 1),
           <<"backup-">> \o dir_path[Len(dir_path)])

\* branch.name of a remote ref, line 139
RefName(trail) == <<"origin", "/">> \o trail

\* self.repo_branches as collect_branches leaves it: no branch, one, two
\* with different words, two that differ in "/" against "-"
BranchLists ==
    { <<>>,
      << RefName(<<"feature">>) >>,
      << RefName(<<"feature">>), RefName(<<"login">>) >>,
      << RefName(<<"feature", "/", "login">>),
         RefName(<<"feature", "-", "login">>) >> }

\* self.name, and the directory the Repository was cloned to: by
\* clone_from(<root>/backups) with head_name "" as __init__ leaves it, or
\* by clone_from(<root>/widgets) with head_name "main"
RepoName == <<"widgets">>
MainCloneDests ==
    { clone_dest_of(<< <<"root">>, <<"backups">> >>, RepoName, <<>>, <<>>),
      clone_dest_of(<< <<"root">>, <<"widgets">> >>, RepoName, <<"main">>,
                    <<>>) }

\* Path.parent, line 139
path_parent(path) == SubSeq(path, 1, Len(path) - 1)

\* the destinations of the branch clones of a list beside a main clone,
\* and every directory a branch clone can touch
BranchDests(main, list) ==
    { clone_dest_of(path_parent(main), RepoName, <<>>, list[k]) :
      k \in 1..Len(list) }

BranchPaths ==
    UNION { BranchDests(main, list)
               \cup { backup_dir_of(d) : d \in BranchDests(main, list) } :
            main \in MainCloneDests, list \in BranchLists }

BranchIds == 1..MaxBranches

\* self.cloned_to once the clone_from call of the i-th branch assigned it
BranchDest(i) == "branch_dest_" \o ToString(i)

\* the path self.cloned_to names
ClonedToPath ==
    IF cloned_to = "clone_dest" THEN cb.main
    ELSE bw[CHOOSE i \in BranchIds : BranchDest(i) = cloned_to].clone_dest

\* self.repo once the clone_from call of the i-th branch assigned it
BranchRepo(i) == MaxCalls + i

NoClone ==
    [pc |-> "none", branch |-> <<>>, dest |-> <<>>, clone_dest |-> <<>>,
     existed |-> FALSE, attempt |-> 0, successful_clone |-> FALSE,
     outcome |-> "none"]

\* futures submitted so far, line 139
Submitted == Cardinality({ i \in BranchIds : bw[i].pc # "none" })

\* the i-th future is held by a pool thread
OnPoolThread(i) == bw[i].pc \notin {"none", "submitted", "done"}

\* the i-th clone_from call is between its first and its last statement
InBranchClone(i) == OnPoolThread(i) /\ bw[i].pc # "taken"

\* load_factor=0.75, line 136
CloneBranchesLoadFactor == (3 * FracDen) \div 4

\* git.Repo.__init__ at line 118 finds a repository at the directory; a
\* tree that a deletion or a clone left half-way may or may not hold one
OpensAsRepo(dir) ==
    IF dir \in {ABSENT, EMPTY} THEN {FALSE}
    ELSE IF dir \in {PARTIAL, DAMAGED} THEN {FALSE, TRUE}
    ELSE {TRUE}

\* what the branch clones leave alone
BranchFrame ==
    /\ UNCHANGED <<queueVars, branchVars, callVars, pullVars>>
    /\ UNCHANGED <<destDir, backupDir, pc, calls, max_retries, attempt,
                   successful_clone, outcome, signal, destBefore,
                   backupBefore, existed, invocations, sleeps, lastEvent,
                   fsFailed, clonedToBefore, repoBefore>>

(***************************************************************************)
(* clone_branches, lines 128-137: the guard, the choice of the list, the   *)
(* size of the pool.  cpus and mem are what psutil reports (mem in         *)
(* 1/FracDen GB).                                                          *)
(***************************************************************************)
clone_branches_begin ==
    /\ cb.pc = "none"
    /\ pc = "idle"
    /\ \E only_active \in BOOLEAN, cpus \in {1, MaxCpus} :
          cb' = IF repo_branches = <<>> \/ cloned_to = "" \/ repo = 0
                THEN [cb EXCEPT !.pc = "returned", !.result = "None",
                                !.only_active = only_active]
                ELSE [pc |-> "submit",
                      main |-> cb.main,
                      only_active |-> only_active,
                      branch_list |-> IF only_active THEN active_branches
                                      ELSE repo_branches,
                      max_workers |->
                          determine_max_workers(cpus,
                                                CloneBranchesLoadFactor,
                                                FracDen, <<>>),
                      result |-> "none"]
    /\ BranchFrame
    /\ UNCHANGED <<cloned_to, repo, bw, bdir, self_base>>

(***************************************************************************)
(* line 139, one turn of the list comprehension: self.cloned_to.parent is  *)
(* read now, while the clones submitted before may already run.            *)
(***************************************************************************)
clone_branches_submit ==
    /\ cb.pc = "submit"
    /\ Submitted < Len(cb.branch_list)
    /\ bw' = [bw EXCEPT ![Submitted + 1] =
                 [NoClone EXCEPT !.pc = "submitted",
                                 !.branch = cb.branch_list[Submitted + 1],
                                 !.dest = path_parent(ClonedToPath)]]
    /\ BranchFrame
    /\ UNCHANGED <<cloned_to, repo, cb, bdir, self_base>>

(***************************************************************************)
(* A thread of the pool of line 137 takes the oldest future not yet taken: *)
(* the pool keeps its futures in a FIFO and has at most max_workers        *)
(* threads, each holding one future until its clone_from call has ended.   *)
(* The threads that hold a future then run in any order.                   *)
(***************************************************************************)
executor_take ==
    \E i \in BranchIds :
       /\ bw[i].pc = "submitted"
       /\ \A j \in 1..(i - 1) : bw[j].pc # "submitted"
       /\ Cardinality({ j \in BranchIds : OnPoolThread(j) }) < cb.max_workers
       /\ bw' = [bw EXCEPT ![i].pc = "taken"]
       /\ BranchFrame
       /\ UNCHANGED <<cloned_to, repo, cb, bdir, self_base>>

(***************************************************************************)
(* clone_from of one branch on a pool thread, lines 67-91, up to the test  *)
(* clone_dest.exists().  dest is the parent of a directory that exists, so *)
(* line 74 is not reached.                                                 *)
(***************************************************************************)
branch_clone_from_begin ==
    \E i \in BranchIds :
       /\ bw[i].pc = "taken"
       /\ LET clone_dest == clone_dest_of(bw[i].dest, RepoName, <<>>,
                                          bw[i].branch)
              exists == Exists(bdir[clone_dest])
          IN  bw' = [bw EXCEPT ![i].clone_dest = clone_dest,
                               ![i].existed = exists,
                               ![i].pc = IF exists THEN "assign_cloned_to"
                                         ELSE "clone"]
       /\ BranchFrame
       /\ UNCHANGED <<cloned_to, repo, cb, bdir, self_base>>

\* clone_from, line 94: self.cloned_to = clone_dest
branch_assign_cloned_to ==
    \E i \in BranchIds :
       /\ bw[i].pc = "assign_cloned_to"
       /\ cloned_to' = BranchDest(i)
       /\ bw' = [bw EXCEPT ![i].pc = "set_backup_dir"]
       /\ BranchFrame
       /\ UNCHANGED <<repo, cb, bdir, self_base>>

\* set_backup_dir, lines 260-263: the test backup_dir.exists()
branch_set_backup_dir ==
    \E i \in BranchIds :
       /\ bw[i].pc = "set_backup_dir"
       /\ bw' = [bw EXCEPT ![i].pc =
                    IF Exists(bdir[backup_dir_of(bw[i].clone_dest)])
                    THEN "remove_stale" ELSE "remove_dest"]
       /\ BranchFrame
       /\ UNCHANGED <<cloned_to, repo, cb, bdir, self_base>>

\* set_backup_dir, line 265
branch_set_backup_dir_remove_stale ==
    \E i \in BranchIds :
       /\ bw[i].pc = "remove_stale"
       /\ \E r \in remove_dir(bdir[backup_dir_of(bw[i].clone_dest)]) :
             bdir' = [bdir EXCEPT ![backup_dir_of(bw[i].clone_dest)] = r]
       /\ bw' = [bw EXCEPT ![i].pc = "backup_rename"]
       /\ BranchFrame
       /\ UNCHANGED <<cloned_to, repo, cb, self_base>>

\* set_backup_dir, lines 267-271: the rename, an exception of which is
\* logged
branch_set_backup_dir_rename ==
    \E i \in BranchIds :
       /\ bw[i].pc = "backup_rename"
       /\ LET d == bw[i].clone_dest
              b == backup_dir_of(bw[i].clone_dest)
          IN  \/ /\ CanRename(bdir[d], bdir[b])
                 /\ bdir' = [bdir EXCEPT ![b] = bdir[d], ![d] = ABSENT]
              \/ UNCHANGED bdir
       /\ bw' = [bw EXCEPT ![i].pc = "clone"]
       /\ BranchFrame
       /\ UNCHANGED <<cloned_to, repo, cb, self_base>>

\* set_backup_dir, lines 272-275
branch_set_backup_dir_remove_dest ==
    \E i \in BranchIds :
       /\ bw[i].pc = "remove_dest"
       /\ \E r \in remove_dir(bdir[bw[i].clone_dest]) :
             bdir' = [bdir EXCEPT ![bw[i].clone_dest] = r]
       /\ bw' = [bw EXCEPT ![i].pc = "clone"]
       /\ BranchFrame
       /\ UNCHANGED <<cloned_to, repo, cb, self_base>>

\* __clone_from_basecls, line 315, the call: git.Repo.clone_from has
\* written the clone and returns a Repo of its own; nothing is stored yet
branch_clone_attempt_ok ==
    \E i \in BranchIds :
       /\ bw[i].pc = "clone"
       /\ WhileCond(bw[i].attempt, max_retries)
       /\ Vacant(bdir[bw[i].clone_dest])
       /\ bdir' = [bdir EXCEPT ![bw[i].clone_dest] =
                                   NewContent(BranchRepo(i))]
       /\ bw' = [bw EXCEPT ![i].pc = "store_repo"]
       /\ BranchFrame
       /\ UNCHANGED <<cloned_to, repo, cb, self_base>>

\* __clone_from_basecls, lines 315-318: the Repo returned is stored in
\* self.repo, which is self no longer; successful_clone = True; break
branch_clone_attempt_store ==
    \E i \in BranchIds :
       /\ bw[i].pc = "store_repo"
       /\ repo' = BranchRepo(i)
       /\ self_base' = [self_base EXCEPT !.is_repo = FALSE]
       /\ bw' = [bw EXCEPT ![i].successful_clone = TRUE,
                           ![i].pc = AfterSuccessPc]
       /\ BranchFrame
       /\ UNCHANGED <<cloned_to, cb, bdir>>

\* __clone_from_basecls, lines 315, 319-327: git.Repo.clone_from raises
branch_clone_attempt_fail ==
    \E i \in BranchIds :
       /\ bw[i].pc = "clone"
       /\ WhileCond(bw[i].attempt, max_retries)
       /\ \E left \in CloneFailureLeaves(bdir[bw[i].clone_dest]) :
             bdir' = [bdir EXCEPT ![bw[i].clone_dest] = left]
       /\ bw' = [bw EXCEPT ![i].attempt = @ + 1,
                           ![i].pc = IF SleepCond(bw[i].attempt + 1,
                                                  max_retries)
                                     THEN "sleep" ELSE "clone"]
       /\ BranchFrame
       /\ UNCHANGED <<cloned_to, repo, cb, self_base>>

\* __clone_from_basecls, line 325
branch_retry_sleep ==
    \E i \in BranchIds :
       /\ bw[i].pc = "sleep"
       /\ bw' = [bw EXCEPT ![i].pc = "clone"]
       /\ BranchFrame
       /\ UNCHANGED <<cloned_to, repo, cb, bdir, self_base>>

\* __clone_from_basecls, lines 312, 329
branch_clone_loop_exit ==
    \E i \in BranchIds :
       /\ bw[i].pc = "clone"
       /\ ~WhileCond(bw[i].attempt, max_retries)
       /\ bw' = [bw EXCEPT ![i].pc = "after_clone"]
       /\ BranchFrame
       /\ UNCHANGED <<cloned_to, repo, cb, bdir, self_base>>

\* clone_from, lines 101-103 and 125
branch_remove_backup_after_success ==
    \E i \in BranchIds :
       /\ bw[i].pc = "after_clone"
       /\ bw[i].existed
       /\ bw[i].successful_clone
       /\ \E r \in remove_dir(bdir[backup_dir_of(bw[i].clone_dest)]) :
             /\ bdir' = [bdir EXCEPT ![backup_dir_of(bw[i].clone_dest)] = r]
             /\ bw' = [bw EXCEPT ![i].outcome = RemoveDirOutcome(r),
                                 ![i].pc = "done"]
       /\ BranchFrame
       /\ UNCHANGED <<cloned_to, repo, cb, self_base>>

\* clone_from, lines 104-108
branch_rollback_remove_dest ==
    \E i \in BranchIds :
       /\ bw[i].pc = "after_clone"
       /\ bw[i].existed
       /\ ~bw[i].successful_clone
       /\ \E r \in remove_dir(bdir[bw[i].clone_dest]) :
             bdir' = [bdir EXCEPT ![bw[i].clone_dest] = r]
       /\ bw' = [bw EXCEPT ![i].pc = "rollback_rename"]
       /\ BranchFrame
       /\ UNCHANGED <<cloned_to, repo, cb, self_base>>

\* clone_from, lines 111 and 125
branch_rollback_rename ==
    \E i \in BranchIds :
       /\ bw[i].pc = "rollback_rename"
       /\ LET d == bw[i].clone_dest
              b == backup_dir_of(bw[i].clone_dest)
          IN  \/ /\ CanRename(bdir[b], bdir[d])
                 /\ bdir' = [bdir EXCEPT ![d] = bdir[b], ![b] = ABSENT]
                 /\ bw' = [bw EXCEPT ![i].outcome = "returned",
                                     ![i].pc = "done"]
              \/ /\ bw' = [bw EXCEPT ![i].outcome = "raised",
                                     ![i].pc = "done"]
                 /\ UNCHANGED bdir
       /\ BranchFrame
       /\ UNCHANGED <<cloned_to, repo, cb, self_base>>

\* clone_from, lines 112-115 and 125: the fresh clone failed
branch_finish_fresh_failed ==
    \E i \in BranchIds :
       /\ bw[i].pc = "after_clone"
       /\ ~bw[i].existed
       /\ ~bw[i].successful_clone
       /\ bw' = [bw EXCEPT ![i].outcome = "returned", ![i].pc = "done"]
       /\ BranchFrame
       /\ UNCHANGED <<cloned_to, repo, cb, bdir, self_base>>

\* clone_from, lines 115-116: self.cloned_to = clone_dest
branch_finish_fresh ==
    \E i \in BranchIds :
       /\ bw[i].pc = "after_clone"
       /\ ~bw[i].existed
       /\ bw[i].successful_clone
       /\ cloned_to' = BranchDest(i)
       /\ bw' = [bw EXCEPT ![i].pc = "base_init"]
       /\ BranchFrame
       /\ UNCHANGED <<repo, cb, bdir, self_base>>

(***************************************************************************)
(* clone_from, line 118: super().__init__(str(clone_dest)) opens what is   *)
(* at clone_dest now as the base of self, and of self.repo where that is   *)
(* self; it raises where no repository is there any more.                  *)
(***************************************************************************)
branch_finish_fresh_init ==
    \E i \in BranchIds :
       /\ bw[i].pc = "base_init"
       /\ \E opens \in OpensAsRepo(bdir[bw[i].clone_dest]) :
             IF opens
             THEN /\ self_base' = [self_base EXCEPT !.at = BranchRepo(i)]
                  /\ repo' = IF self_base.is_repo THEN BranchRepo(i)
                             ELSE repo
                  /\ bw' = [bw EXCEPT ![i].pc = "assign_repo"]
             ELSE /\ bw' = [bw EXCEPT ![i].outcome = "raised",
                                      ![i].pc = "done"]
                  /\ UNCHANGED <<repo, self_base>>
       /\ BranchFrame
       /\ UNCHANGED <<cloned_to, cb, bdir>>

\* clone_from, lines 119 and 125: self.repo = self, as its base is now
branch_finish_fresh_repo ==
    \E i \in BranchIds :
       /\ bw[i].pc = "assign_repo"
       /\ repo' = self_base.at
       /\ self_base' = [self_base EXCEPT !.is_repo = TRUE]
       /\ bw' = [bw EXCEPT ![i].outcome = "returned", ![i].pc = "done"]
       /\ BranchFrame
       /\ UNCHANGED <<cloned_to, cb, bdir>>

(***************************************************************************)
(* lines 141-150: every future is awaited, an exception of a clone is      *)
(* logged, and the pool is shut down before clone_branches returns self.   *)
(***************************************************************************)
clone_branches_return ==
    /\ cb.pc = "submit"
    /\ Submitted = Len(cb.branch_list)
    /\ \A i \in 1..Submitted : bw[i].pc = "done"
    /\ cb' = [cb EXCEPT !.pc = "returned", !.result = "self"]
    /\ BranchFrame
    /\ UNCHANGED <<cloned_to, repo, bw, bdir, self_base>>

NextCloneBranches ==
    \/ clone_branches_begin
    \/ clone_branches_submit
    \/ executor_take
    \/ branch_clone_from_begin
    \/ branch_assign_cloned_to
    \/ branch_set_backup_dir
    \/ branch_set_backup_dir_remove_stale
    \/ branch_set_backup_dir_rename
    \/ branch_set_backup_dir_remove_dest
    \/ branch_clone_attempt_ok
    \/ branch_clone_attempt_store
    \/ branch_clone_attempt_fail
    \/ branch_retry_sleep
    \/ branch_clone_loop_exit
    \/ branch_remove_backup_after_success
    \/ branch_rollback_remove_dest
    \/ branch_rollback_rename
    \/ branch_finish_fresh_failed
    \/ branch_finish_fresh
    \/ branch_finish_fresh_init
    \/ branch_finish_fresh_repo
    \/ clone_branches_return

(***************************************************************************)
(* The Repository when clone_branches is called: as __init__ left it, or   *)
(* after one clone_from call that cloned into a fresh destination, or      *)
(* after one that deleted an existing destination and failed to clone      *)
(* (cloned_to set, repo None).                     repo_branches holds     *)
(* what collect_branches found, active_branches its first branch.  The     *)
(* branch directories are absent or left by an earlier run.                *)
(***************************************************************************)
ClonedRepository ==
    /\ calls = 1 /\ destDir = NewContent(1) /\ backupDir = ABSENT
    /\ cloned_to = "clone_dest" /\ repo = 1
    /\ self_base = [at |-> 1, is_repo |-> TRUE]
    /\ successful_clone = TRUE /\ outcome = "returned"
    /\ signal = "finished" /\ lastEvent = "invoke_ok"
    /\ attempt = 0 /\ invocations = 1 /\ sleeps = 0
    /\ destBefore = ABSENT /\ existed = FALSE /\ fsFailed = FALSE

FailedRepository ==
    /\ calls = 1 /\ destDir = ABSENT /\ backupDir = ABSENT
    /\ cloned_to = "clone_dest" /\ repo = 0
    /\ self_base = NoBase
    /\ successful_clone = FALSE /\ outcome = "raised"
    /\ signal = "error" /\ lastEvent = "invoke_fail"
    /\ attempt = DefaultMaxRetries /\ invocations = DefaultMaxRetries
    /\ sleeps = DefaultMaxRetries - 1
    /\ destBefore = ORIG /\ existed = TRUE /\ fsFailed = FALSE

NewRepository ==
    /\ calls = 0 /\ destDir = ABSENT /\ backupDir = ABSENT
    /\ cloned_to = "" /\ repo = 0
    /\ self_base = NoBase
    /\ successful_clone = FALSE /\ outcome = "none"
    /\ signal = "none" /\ lastEvent = "none"
    /\ attempt = 0 /\ invocations = 0 /\ sleeps = 0
    /\ destBefore = ABSENT /\ existed = FALSE /\ fsFailed = FALSE

InitBranchClones ==
    /\ InitQueue /\ InitCalls /\ InitPull /\ saved = <<>>
    /\ pc = "idle" /\ max_retries = DefaultMaxRetries
    /\ backupBefore = ABSENT /\ clonedToBefore = "" /\ repoBefore = 0
    /\ NewRepository \/ ClonedRepository \/ FailedRepository
    /\ repo_branches \in BranchLists
    /\ active_branches = SubSeq(repo_branches, 1, Min(1, Len(repo_branches)))
    /\ lastCollect = [op |-> "none"]
    /\ \E main \in (IF cloned_to = "" THEN {<<>>} ELSE MainCloneDests) :
          cb = [NoCloneBranches EXCEPT !.main = main]
    /\ bw = [i \in BranchIds |-> NoClone]
    /\ \E d \in {ABSENT, ORIG}, b \in {ABSENT, STALE} :
          bdir = [p \in BranchPaths |->
                     IF \E q \in BranchPaths : p = backup_dir_of(q)
                     THEN b ELSE d]

SpecCloneBranches == InitBranchClones /\ [][NextCloneBranches]_vars

(***************************************************************************)
(* The window, ui_main.py 560-960: the handlers that change the rows of    *)
(* the table and the backup path, pull_repos feeding the TaskQueue,        *)
(* pull_repos_no_ui and closeEvent.                                        *)
(***************************************************************************)
GithubUrl(owner, name) ==
    <<"https:", "/", "/", "github.com", "/", owner, "/", name>>

\* URLs a user types into the window
TypedUrls ==
    { GithubUrl("acme", "widgets"), GithubUrl("other", "widgets"),
      <<"https:", "/", "/", "github.com">> }

\* what a user leaves in backup_path_input: nothing, a relative or an
\* absolute directory
BackupPathTexts == { <<>>, << <<"elsewhere">> >>, RootElsewhere }

\* Path.resolve(), the working directory being <<"root">>
path_resolve(path) ==
    IF path[1] = <<"root">> THEN path ELSE << <<"root">> >> \o path

\* entry_exists, lines 710-717: some row, checked or not, shows this URL
entry_exists(url) == \E i \in 1..Len(table) : table[i].url = url

\* Settings.save_repo, settings.py 80-115: a new key with do_pull, or the
\* do_pull of the key that is there
save_repo_in(section, repo_url, do_pull) ==
    IF \E i \in 1..Len(section) : section[i].url = repo_url
    THEN [i \in 1..Len(section) |->
             IF section[i].url = repo_url
             THEN [section[i] EXCEPT !.pull = do_pull] ELSE section[i]]
    ELSE Append(section, [url |-> repo_url, pull |-> do_pull])

save_repo(repo_url, do_pull) == save_repo_in(saved, repo_url, do_pull)

\* Settings.remove_repo, settings.py 117-132, for every URL of gone
remove_repo(gone) == SelectSeq(saved, LAMBDA e : e.url \notin gone)

\* the rows of rows, in row order, as a sequence without the others
RECURSIVE KeepRows(_, _, _)
KeepRows(rows, keep, i) ==
    IF i > Len(rows) THEN <<>>
    ELSE (IF i \in keep THEN <<rows[i]>> ELSE <<>>)
            \o KeepRows(rows, keep, i + 1)

\* the pull checkbox of the rows of sel set to do_pull
set_pull(sel, do_pull) ==
    [i \in 1..Len(table) |->
        IF i \in sel THEN [table[i] EXCEPT !.pull = do_pull] ELSE table[i]]

\* a handler is invoked: the GUI thread is in no other handler
UserOp ==
    /\ ppc = "idle"
    /\ ops < MaxOps
    /\ ops' = ops + 1

\* what the handlers of the table and of the backup path leave alone
WindowFrame ==
    /\ UNCHANGED <<cloneVars, queueVars, branchVars, callVars, cbVars>>
    /\ UNCHANGED <<repos, buttons_enabled, task_url, task_path, no_ui,
                   save_root_dir>>

\* what the handlers of the rows leave alone
RowsFrame ==
    /\ WindowFrame
    /\ UNCHANGED <<ppc, dialog_row, repo_backup_path, backup_path_input>>

\* add_entry, lines 578-605: the typed URL gets a checked row and a key in
\* the settings when no row shows it and it validates; when a row shows it
\* the method raises (line 588 reads entry before it is bound) and when it
\* does not validate it returns, both leaving the window as it was
add_entry ==
    /\ UserOp
    /\ Len(table) < MaxEntries
    /\ \E url \in TypedUrls :
          LET v == validate_github_url(url)
              ok == ~entry_exists(url) /\ ~v.raised /\ v.result
          IN /\ table' = IF ok THEN Append(table, [url |-> url, pull |-> TRUE])
                         ELSE table
             /\ saved' = IF ok THEN save_repo(url, TRUE) ELSE saved
    /\ RowsFrame

\* load_saved_repos, lines 560-576: one row per key of the settings, with
\* its do_pull, added without looking at the URL or at the rows there are
load_saved_repos ==
    /\ UserOp
    /\ Len(table) + Len(saved) <= MaxEntries
    /\ table' = table \o saved
    /\ UNCHANGED saved
    /\ RowsFrame

\* handle_cell_doubleclick(row, 1), lines 658-677: the "Edit URL" dialog
\* of a row opens; input_dialog.exec_() runs an event loop of its own, in
\* which the window takes no input
handle_cell_doubleclick ==
    /\ UserOp
    /\ \E row \in 1..Len(table) : dialog_row' = row
    /\ ppc' = "dialog"
    /\ UNCHANGED <<table, saved, repo_backup_path, backup_path_input>>
    /\ WindowFrame

\* lines 677-681: the dialog is accepted, and the URL typed into it
\* replaces the URL of the row when it validates; the other rows and the
\* settings are not looked at
handle_cell_doubleclick_accepted ==
    /\ ppc = "dialog"
    /\ \E new_url \in TypedUrls :
          LET v == validate_github_url(new_url)
          IN table' = IF ~v.raised /\ v.result
                      THEN [table EXCEPT ![dialog_row].url = new_url]
                      ELSE table
    /\ dialog_row' = 0
    /\ ppc' = "idle"
    /\ UNCHANGED <<saved, repo_backup_path, backup_path_input, ops>>
    /\ WindowFrame

\* line 677: the dialog is dismissed
handle_cell_doubleclick_rejected ==
    /\ ppc = "dialog"
    /\ dialog_row' = 0
    /\ ppc' = "idle"
    /\ UNCHANGED <<table, saved, repo_backup_path, backup_path_input, ops>>
    /\ WindowFrame

\* remove_selected_entries, lines 719-729: the selected rows leave the
\* table and their URLs leave the settings
remove_selected_entries ==
    /\ UserOp
    /\ \E sel \in SUBSET (1..Len(table)) :
          /\ table' = KeepRows(table, (1..Len(table)) \ sel, 1)
          /\ saved' = remove_repo({table[i].url : i \in sel})
    /\ RowsFrame

\* set_selection_selected, lines 731-739
set_selection_selected ==
    /\ UserOp
    /\ \E sel \in SUBSET (1..Len(table)) :
          table' = set_pull(sel, TRUE)
    /\ UNCHANGED saved
    /\ RowsFrame

\* set_selection_deselected, lines 741-749
set_selection_deselected ==
    /\ UserOp
    /\ \E sel \in SUBSET (1..Len(table)) :
          table' = set_pull(sel, FALSE)
    /\ UNCHANGED saved
    /\ RowsFrame

\* set_all_selected, lines 751-755
set_all_selected ==
    /\ UserOp
    /\ table' = set_pull(1..Len(table), TRUE)
    /\ UNCHANGED saved
    /\ RowsFrame

\* set_all_deselected, lines 757-761
set_all_deselected ==
    /\ UserOp
    /\ table' = set_pull(1..Len(table), FALSE)
    /\ UNCHANGED saved
    /\ RowsFrame

\* TableEntry.pull_checkbox, ui_main.py 309-311: a click on the checkbox
\* of a row changes its state
pull_checkbox_clicked ==
    /\ UserOp
    /\ \E row \in 1..Len(table) :
          table' = [table EXCEPT ![row].pull = ~table[row].pull]
    /\ UNCHANGED saved
    /\ RowsFrame

\* set_backup_path, lines 771-778, with text in backup_path_input
backup_path_from(text) ==
    /\ backup_path_input' = IF text # <<>> THEN path_resolve(text) ELSE text
    /\ repo_backup_path' = IF text # <<>> THEN path_resolve(text)
                           ELSE repo_backup_path

\* set_backup_path as the slot of backup_path_input.editingFinished: the
\* user has left a text in the field.  The signal is delivered by the
\* event loop of the window or by the one the file dialog of
\* pick_backup_path runs.
set_backup_path ==
    /\ ppc \in {"idle", "file_dialog"}
    /\ ops < MaxOps
    /\ ops' = ops + 1
    /\ \E text \in BackupPathTexts : backup_path_from(text)
    /\ UNCHANGED <<table, saved, ppc, dialog_row>>
    /\ WindowFrame

(***************************************************************************)
(* pick_backup_path, lines 763-764: QFileDialog.getExistingDirectory opens *)
(* the file dialog and runs an event loop of its own until the dialog is   *)
(* closed; the slot above, the dispatcher and the workers run meanwhile.   *)
(***************************************************************************)
pick_backup_path ==
    /\ UserOp
    /\ ppc' = "file_dialog"
    /\ UNCHANGED <<table, saved, dialog_row, backup_path_input,
                   repo_backup_path>>
    /\ WindowFrame

\* pick_backup_path, lines 766-767: a directory was chosen; it is not
\* used, set_backup_path reads the text of the field as it is now
pick_backup_path_chosen ==
    /\ ppc = "file_dialog"
    /\ backup_path_from(backup_path_input)
    /\ ppc' = "idle"
    /\ UNCHANGED <<table, saved, dialog_row, ops>>
    /\ WindowFrame

\* pick_backup_path, lines 766 and 768-769: the dialog was dismissed
pick_backup_path_aborted ==
    /\ ppc = "file_dialog"
    /\ ppc' = "idle"
    /\ UNCHANGED <<table, saved, dialog_row, ops, backup_path_input,
                   repo_backup_path>>
    /\ WindowFrame

Range(seq) == { seq[i] : i \in 1..Len(seq) }

\* the URLs of the checked rows, in row order
RECURSIVE CheckedUrls(_, _)
CheckedUrls(rows, i) ==
    IF i > Len(rows) THEN <<>>
    ELSE (IF rows[i].pull THEN <<rows[i].url>> ELSE <<>>)
            \o CheckedUrls(rows, i + 1)

\* pull_repos, lines 783-800: the buttons are disabled and one
\* Repository(url) per checked row is collected in row order; with no row
\* checked the method returns there, the buttons staying disabled
pull_repos_collect ==
    /\ ops < MaxOps
    /\ ops' = ops + 1
    /\ ppc = "idle"
    /\ LET checked == CheckedUrls(table, 1)
       IN /\ Len(submitOrder) + Len(checked) <= NumTasks
          /\ repos' = checked
          /\ ppc' = IF checked = <<>> THEN "idle" ELSE "add_task"
    /\ buttons_enabled' = FALSE
    /\ UNCHANGED <<table, saved, task_url, task_path, repo_backup_path,
                   backup_path_input, save_root_dir, dialog_row, no_ui>>
    /\ UNCHANGED <<cloneVars, queueVars, branchVars, callVars, cbVars>>

\* pull_repos, lines 802-811: one turn of the loop, a CloneRepoTask of the
\* next collected Repository is added to the queue
pull_repos_add_task ==
    /\ ppc = "add_task"
    /\ repos # <<>>
    /\ LET t == Len(submitOrder) + 1
       IN /\ queue' = Append(queue, t)
          /\ submitOrder' = Append(submitOrder, t)
          /\ tstate' = [tstate EXCEPT ![t] = "pending"]
          /\ task_url' = [task_url EXCEPT ![t] = Head(repos)]
          /\ task_path' = [task_path EXCEPT ![t] = repo_backup_path]
    /\ repos' = Tail(repos)
    /\ UNCHANGED <<table, saved, ppc, buttons_enabled, repo_backup_path,
                   backup_path_input, save_root_dir, dialog_row, no_ui, ops>>
    /\ UNCHANGED <<cloneVars, branchVars, callVars, cbVars>>
    /\ UNCHANGED <<ongoing_tasks, is_running, dpc, dtask, original_run, body,
                   decCalls, dequeueOrder, handedOrder, resetSeen, stopped,
                   refused>>

\* pull_repos, line 813: the loop is over, the buttons are enabled again
pull_repos_return ==
    /\ ppc = "add_task"
    /\ repos = <<>>
    /\ ppc' = "idle"
    /\ buttons_enabled' = TRUE
    /\ UNCHANGED <<table, saved, repos, task_url, task_path, repo_backup_path,
                   backup_path_input, save_root_dir, dialog_row, no_ui, ops>>
    /\ UNCHANGED <<cloneVars, queueVars, branchVars, callVars, cbVars>>

\* CloneRepoTask.run of task b: repo.clone_from(self.path) of a Repository
\* fresh from its URL, so without a branch and with head_name ""
TaskDest(b) ==
    clone_dest_of(task_path[b],
                  parse_owner_name_from_url(task_url[b]).name, <<>>, <<>>)

(***************************************************************************)
(* pull_repos_no_ui, ui_main.py 815-855: the repositories the settings     *)
(* mark for pulling are cloned on a pool of MAX_CONCURRENT_TASKS threads,  *)
(* beside the TaskQueue, into the directory the settings name.  Settings   *)
(* is one object for the whole process, so these are the window's          *)
(* settings.                                                               *)
(***************************************************************************)
\* lines 817-831 and 845-846
pull_repos_no_ui_collect ==
    /\ UserOp
    /\ no_ui' = [repos |-> CheckedUrls(saved, 1), running |-> {},
                 save_to |-> save_root_dir]
    /\ ppc' = "no_ui"
    /\ UNCHANGED <<table, saved, repos, buttons_enabled, task_url, task_path,
                   repo_backup_path, backup_path_input, save_root_dir,
                   dialog_row>>
    /\ UNCHANGED <<cloneVars, queueVars, branchVars, callVars, cbVars>>

\* line 834: a thread of the pool takes the next Repository and calls
\* repo.clone_from(save_to)
clone_and_update_repo_start ==
    /\ ppc = "no_ui"
    /\ no_ui.repos # <<>>
    /\ Cardinality(no_ui.running) < MAX_CONCURRENT_TASKS
    /\ no_ui' = [no_ui EXCEPT !.repos = Tail(no_ui.repos),
                              !.running = @ \cup {Head(no_ui.repos)}]
    /\ UNCHANGED <<table, saved, repos, ppc, buttons_enabled, task_url,
                   task_path, repo_backup_path, backup_path_input,
                   save_root_dir, dialog_row, ops>>
    /\ UNCHANGED <<cloneVars, queueVars, branchVars, callVars, cbVars>>

\* lines 834-840: clone_from returns and the repository is saved with the
\* do_pull it had, or clone_from raises and nothing is saved
clone_and_update_repo_finish ==
    /\ ppc = "no_ui"
    /\ \E url \in no_ui.running, returned \in BOOLEAN :
          /\ no_ui' = [no_ui EXCEPT !.running = @ \ {url}]
          /\ saved' = IF returned
                      THEN save_repo(url, url \in Range(CheckedUrls(saved, 1)))
                      ELSE saved
    /\ UNCHANGED <<table, repos, ppc, buttons_enabled, task_url, task_path,
                   repo_backup_path, backup_path_input, save_root_dir,
                   dialog_row, ops>>
    /\ UNCHANGED <<cloneVars, queueVars, branchVars, callVars, cbVars>>

\* lines 848-855: every future has completed
pull_repos_no_ui_return ==
    /\ ppc = "no_ui"
    /\ no_ui.repos = <<>>
    /\ no_ui.running = {}
    /\ ppc' = "idle"
    /\ UNCHANGED <<table, saved, repos, buttons_enabled, task_url, task_path,
                   repo_backup_path, backup_path_input, save_root_dir,
                   dialog_row, no_ui, ops>>
    /\ UNCHANGED <<cloneVars, queueVars, branchVars, callVars, cbVars>>

\* the destination of repo.clone_from(save_to) for a saved URL
NoUiDest(url) ==
    clone_dest_of(no_ui.save_to, parse_owner_name_from_url(url).name,
                  <<>>, <<>>)

(***************************************************************************)
(* closeEvent, ui_main.py 934-960.                                         *)
(***************************************************************************)
\* line 936, TaskQueue.stop up to worker_thread.wait()
closeEvent_stop ==
    /\ UserOp
    /\ is_running' = FALSE
    /\ stopped' = [pc |-> "waiting"]
    /\ ppc' = "closing"
    /\ UNCHANGED <<table, saved, repos, buttons_enabled, task_url, task_path,
                   repo_backup_path, backup_path_input, save_root_dir,
                   dialog_row, no_ui>>
    /\ UNCHANGED <<cloneVars, branchVars, callVars, cbVars>>
    /\ UNCHANGED <<queue, ongoing_tasks, dpc, dtask, original_run, tstate,
                   body, decCalls, submitOrder, dequeueOrder, handedOrder,
                   resetSeen, refused>>

\* Settings.save_repo for every row, in row order
RECURSIVE save_entries(_, _, _)
save_entries(section, rows, i) ==
    IF i > Len(rows) THEN section
    ELSE save_entries(save_repo_in(section, rows[i].url, rows[i].pull),
                      rows, i + 1)

\* lines 939-960: stop has returned; the backup path and every row go to
\* the settings
closeEvent_save ==
    /\ ppc = "closing"
    /\ stopped.pc = "returned"
    /\ save_root_dir' = repo_backup_path
    /\ saved' = save_entries(saved, table, 1)
    /\ ppc' = "closed"
    /\ UNCHANGED <<table, repos, buttons_enabled, task_url, task_path,
                   repo_backup_path, backup_path_input, dialog_row, no_ui,
                   ops>>
    /\ UNCHANGED <<cloneVars, queueVars, branchVars, callVars, cbVars>>

(***************************************************************************)
(* Properties of the TaskQueue (checked under SpecQueue).                  *)
(***************************************************************************)
Pos(seq, t) == CHOOSE i \in 1..Len(seq) : seq[i] = t

InSeq(seq, t) == \E i \in 1..Len(seq) : seq[i] = t

\* the wrapped run of t has ended
Finished(t) == tstate[t] \in {"done", "raised"}

\* tasks dequeued after a successful increment and not yet decremented for
InFlight == {t \in Tasks : tstate[t] \in {"dequeued", "pooled", "running"}}

\* C4: the running counter stays between 0 and MAX_CONCURRENT_TASKS.
C4_CounterWithinBounds ==
    ongoing_tasks \in 0..MAX_CONCURRENT_TASKS

C4_Witness ==
    /\ ongoing_tasks = MAX_CONCURRENT_TASKS
    /\ Len(submitOrder) > MAX_CONCURRENT_TASKS
    /\ Len(queue) > 0
    /\ dpc = "inc"

\* C5: the number of tasks whose run has started and not finished is at
\* most MAX_CONCURRENT_TASKS and never exceeds the running counter.
C5_RunningWithinCap ==
    /\ Cardinality(Running) <= MAX_CONCURRENT_TASKS
    /\ Cardinality(Running) <= ongoing_tasks

\* C8: tasks are dequeued in the order they were added, and are handed to
\* the worker pool in that order: a task is handed only when every task
\* added before it has been handed or was dropped by the except branch.
C8_FifoDispatch ==
    /\ Len(dequeueOrder) <= Len(submitOrder)
    /\ dequeueOrder = SubSeq(submitOrder, 1, Len(dequeueOrder))
    /\ \A j \in 1..Len(handedOrder) :
          \A a \in Tasks :
             (InSeq(submitOrder, a)
                /\ Pos(submitOrder, a) < Pos(submitOrder, handedOrder[j]))
             => \/ \E i \in 1..(j - 1) : handedOrder[i] = a
                \/ tstate[a] = "dropped"

C8_Witness ==
    /\ Len(handedOrder) >= 2
    /\ tstate[handedOrder[1]] = "running"
    /\ Finished(handedOrder[2])

\* C10: for every dequeued task decrement_ongoing_tasks is called exactly
\* once, by the finally block of its wrapped run or by the except branch
\* of the dispatcher, and never before the task is over; as long as
\* reset_task_counter has not been called the counter equals the number of
\* tasks taken and not yet decremented for.
C10_DecrementExactlyOnce ==
    /\ \A t \in Tasks :
          /\ decCalls[t] <= 1
          /\ (Finished(t) \/ tstate[t] = "dropped") <=> decCalls[t] = 1
    /\ ~resetSeen =>
          ongoing_tasks = Cardinality(InFlight) + (IF dpc = "get" THEN 1 ELSE 0)

C10_Witness ==
    /\ ~resetSeen
    /\ \E t \in Tasks : tstate[t] = "raised" /\ decCalls[t] = 1
    /\ \E t \in Tasks : tstate[t] = "done" /\ decCalls[t] = 1
    /\ \E t \in Tasks : tstate[t] = "dropped" /\ decCalls[t] = 1

\* workers that executed the run body of task b
BodyRuns(b) == {t \in Tasks : body[t] = b}

\* C11: every task follows Pending -> Running -> {Succeeded, Failed}: its
\* run body is executed only after the task was pending and was taken from
\* the queue, a task is pending exactly while it sits in the queue where
\* add_task put it once, and its run body is never executed a second time.
C11_TaskLifeCycle ==
    \A b \in Tasks :
       /\ (BodyRuns(b) # {}) => InSeq(dequeueOrder, b)
       /\ (tstate[b] = "pending") <=> InSeq(queue, b)
       /\ Cardinality({i \in 1..Len(submitOrder) : submitOrder[i] = b}) <= 1
       /\ Cardinality(BodyRuns(b)) <= 1

(***************************************************************************)
(* Properties of the branch lists (checked under SpecBranches).            *)
(***************************************************************************)
\* C12: after any sequence of refreshes every element of active_branches
\* is an element of repo_branches.
C12_ActiveSubsetOfKnown ==
    \A i \in 1..Len(active_branches) :
       \E j \in 1..Len(repo_branches) :
          repo_branches[j] = active_branches[i]

(***************************************************************************)
(* Properties of the dispatcher loop (checked under SpecQueue).            *)
(***************************************************************************)
\* C24: the dispatcher takes a task from the queue only at line 64, which it
\* reaches only through an increment that returned True in this iteration;
\* when the increment returns False the queue and the counter are left as
\* they are and the loop starts over.
C24_DequeueOnlyAfterIncrement ==
    [][ /\ (Len(queue') < Len(queue)) => (dpc = "get")
        /\ (dpc' = "get" /\ dpc # "get")
              => /\ dpc = "inc"
                 /\ ongoing_tasks < MAX_CONCURRENT_TASKS
                 /\ ongoing_tasks' = ongoing_tasks + 1
        /\ (dpc = "inc" /\ dpc' # "inc"
            /\ ongoing_tasks >= MAX_CONCURRENT_TASKS)
              => /\ dpc' = "top"
                 /\ queue' = queue
                 /\ ongoing_tasks' = ongoing_tasks ]_vars

C24_Witness ==
    /\ refused
    /\ dpc = "top"
    /\ Len(queue) > 0
    /\ tstate[queue[1]] = "pending"
    /\ ongoing_tasks = MAX_CONCURRENT_TASKS

\* C25: the worker of every dispatched task executes that task's own run
\* body, exactly once: never another task's body, never none.
C25_WorkerRunsOwnBody ==
    \A t \in Tasks :
       /\ (tstate[t] \in {"running", "done", "raised"}) => (body[t] = t)
       /\ Finished(t) => (BodyRuns(t) = {t})

\* the run body of task b has been executed to its end by some worker, so
\* its finished or error signal has been emitted
BodyDone(b) == \E w \in BodyRuns(b) : Finished(w)

\* C37: with the dispatcher and the workers scheduled fairly and every run
\* terminating, a task that is pending in a running queue is eventually
\* taken from the queue and has its run body executed to the end, its
\* completion signal emitted (unless the queue is stopped meanwhile).
C37_EveryTaskCompletes ==
    \A t \in Tasks :
       (tstate[t] = "pending") ~> (BodyDone(t) \/ ~is_running)

\* C38 as stated: whenever the queue is empty and no worker is executing a
\* task, the running counter is 0.  Between queue.get() (line 64) and the
\* first statement of wrapped_run on a pool thread the task holds its slot
\* while the queue may be empty and no worker executes anything.
C38_NoSlotHeldWhenNoneRunning ==
    (Len(queue) = 0 /\ Running = {}) => ongoing_tasks = 0

\* C38: whenever the queue is empty and no task is held by the dispatcher
\* (dequeued, lines 64-82), by the pool (started, not yet run) or by a
\* worker (running), the running counter is 0: runs that return, runs that
\* raise and dispatches that raise all give their slot back.
C38_NoSlotLeaked ==
    (Len(queue) = 0 /\ InFlight = {}) => ongoing_tasks = 0

C38_Witness ==
    /\ Len(queue) = 0
    /\ InFlight = {}
    /\ ongoing_tasks = 0
    /\ ~resetSeen
    /\ Len(dequeueOrder) = NumTasks
    /\ \E t \in Tasks : tstate[t] = "raised"
    /\ \E t \in Tasks : tstate[t] = "done"
    /\ \E t \in Tasks : tstate[t] = "dropped"

(***************************************************************************)
(* Properties of TaskQueue.stop (checked under SpecQueue).                 *)
(***************************************************************************)
\* C22: once stop() has returned no task is dequeued or started: the tasks
\* in the queue, those added afterwards included, stay pending, and the
\* running counter is not incremented again.
C22_NoDispatchAfterStop ==
    [][ (stopped.pc = "returned") =>
           /\ ongoing_tasks' <= ongoing_tasks
           /\ dequeueOrder' = dequeueOrder
           /\ \A t \in Tasks :
                 (tstate[t] = "pending") => (tstate'[t] = "pending") ]_vars

C22_Witness ==
    /\ stopped.pc = "returned"
    /\ Len(stopped.queue) > 0
    /\ Len(queue) > Len(stopped.queue)
    /\ ongoing_tasks < MAX_CONCURRENT_TASKS
    /\ \A i \in 1..Len(queue) : tstate[queue[i]] = "pending"

\* the last refresh ran the loop of collect_active_branches
ActiveCollected ==
    \/ lastCollect.op = "collect_active_branches"
    \/ lastCollect.op = "collect_branches" /\ lastCollect.dir = "present"

\* the commit of branch b at the last refresh, and whether it is recent
CommitOf(b) == lastCollect.commits[b]
Recent(b) ==
    (CommitOf(b).ts \div TicksPerDay)
        >= (NowTick \div TicksPerDay) - lastCollect.cutoff

InActive(b) == \E i \in 1..Len(active_branches) : active_branches[i] = b

\* C28: after every collect_active_branches(cutoff) call active_branches is
\* the sequence of the elements of repo_branches that _filter_active
\* accepts, in that order and without duplicates, also when repo_branches
\* is empty.
C28_ActiveRebuiltFromScratch ==
    (lastCollect.op = "collect_active_branches")
        => /\ active_branches =
                 SelectSeq(repo_branches,
                           LAMBDA b : \/ lastCollect.cutoff <= 0
                                      \/ CommitOf(b).ok /\ Recent(b))
           /\ \A i, j \in 1..Len(active_branches) :
                 (active_branches[i] = active_branches[j]) => (i = j)

\* C29: with a cutoff > 0 a branch whose commit or commit date cannot be
\* resolved is left out of active_branches, nothing is raised, and every
\* other branch of repo_branches is still classified by its own commit.
C29_FailingBranchIsInactive ==
    (ActiveCollected /\ lastCollect.cutoff > 0 /\ repo_branches # <<>>)
        => /\ ~lastCollect.raised
           /\ \A i \in 1..Len(repo_branches) :
                 LET b == repo_branches[i]
                 IN InActive(b) <=> (CommitOf(b).ok /\ Recent(b))

C29_Witness ==
    /\ lastCollect.op = "collect_active_branches"
    /\ lastCollect.cutoff > 0
    /\ Len(repo_branches) >= 2
    /\ ~CommitOf(repo_branches[1]).ok
    /\ CommitOf(repo_branches[2]).ok
    /\ active_branches = <<repo_branches[2]>>

\* C35: after collect_branches on a present clone, repo_branches holds the
\* remote's refs, in their order, without origin/HEAD and without the ref
\* of the default branch head_name, whatever the number and the order of
\* the refs.
C35_CollectedAllButHeadAndDefault ==
    (lastCollect.op = "collect_branches" /\ lastCollect.dir = "present")
        => repo_branches =
              SelectSeq(lastCollect.refs,
                        LAMBDA b : split_1_last(b) \notin
                                      {<<"HEAD">>, lastCollect.head_name})

(***************************************************************************)
(* Properties of pull_repos (checked under SpecPull).                      *)
(***************************************************************************)
\* C23: the clones running at the same time, as tasks of the TaskQueue or
\* in the pool of pull_repos_no_ui, work on pairwise distinct destination
\* directories.
C23_DistinctDestinations ==
    /\ \A t1, t2 \in Running :
          (t1 # t2 /\ body[t1] # 0 /\ body[t2] # 0)
             => TaskDest(body[t1]) # TaskDest(body[t2])
    /\ \A u1, u2 \in no_ui.running :
          u1 # u2 => NoUiDest(u1) # NoUiDest(u2)
    /\ \A t \in Running, u \in no_ui.running :
          body[t] # 0 => TaskDest(body[t]) # NoUiDest(u)

\* C26: when stop() returns the in-flight workers have been drained: no
\* task handed to the pool is waiting there or running, and the running
\* counter is 0.
C26_StopDrainsWorkers ==
    (stopped.pc = "returned")
        => (stopped.in_flight = {} /\ stopped.ongoing = 0)

(***************************************************************************)
(* Properties of the functions called on their own (checked under          *)
(* SpecCalls).                                                             *)
(***************************************************************************)
IsFilterCall == call.fn = "_filter_active" /\ call.branch # NoBranch

\* whole days between the commit and today
DaysAgo == (call.now \div TicksPerDay) - (call.commitTs \div TicksPerDay)

\* C13: with active_cutoff_days <= 0, _filter_active returns True for every
\* branch, whatever its commit date and whether or not its commit resolves,
\* and does not read the commit.
C13_CutoffOffIsActive ==
    (IsFilterCall /\ call.cutoff <= 0)
        => (call.result = TRUE /\ ~call.consulted)

C13_Witness ==
    /\ IsFilterCall
    /\ call.cutoff = 0
    /\ ~call.commitOk
    /\ call.result = TRUE

\* C14: with active_cutoff_days > 0 and a commit that resolves,
\* _filter_active returns True exactly when the commit's day is at most
\* active_cutoff_days whole days before today.
C14_ActiveIffWithinCutoff ==
    (IsFilterCall /\ call.cutoff > 0 /\ call.commitOk)
        => (call.result <=> DaysAgo <= call.cutoff)

C14_Witness ==
    /\ IsFilterCall
    /\ call.cutoff = 30
    /\ call.commitOk
    /\ DaysAgo = 30
    /\ call.now - call.commitTs > 30 * TicksPerDay
    /\ call.result = TRUE

\* a remote ref name: a remote, a "/", and the branch's own name
IsRemoteRefName(name) ==
    /\ Len(name) >= 3
    /\ name[1] # "/"
    /\ name[2] = "/"

\* C15: the trailing segment of a branch clone's destination is the branch
\* name without its remote prefix and with every "/" replaced by "-"; it
\* holds no path separator.
C15_SanitisedSegment ==
    (call.fn = "clone_dest") =>
        /\ \A i \in 1..Len(call.trail) : call.trail[i] # "/"
        /\ IsRemoteRefName(call.branch) =>
              /\ Len(call.trail) = Len(call.branch) - 2
              /\ \A i \in 1..Len(call.trail) :
                    call.trail[i] = IF call.branch[i + 2] = "/"
                                    THEN "-"
                                    ELSE call.branch[i + 2]

C15_Witness ==
    /\ call.fn = "clone_dest"
    /\ call.branch = <<"origin", "/", "feature", "/", "login">>
    /\ call.trail = <<"feature", "-", "login">>

\* the call's URL is https://<host>/<path> or https://<host>
IsHttpsUrlOf(host) ==
    /\ call.shape.scheme
    /\ call.shape.slashes
    /\ call.shape.host = host
    /\ (call.shape.path = <<>> \/ call.shape.path[1] = "/")

\* the non-empty segments of the path the URL was written with
UrlSegments == path_split(call.shape.path)

\* C16: for a URL https://github.com/... parse_owner_name_from_url returns
\* the first two non-empty path segments as (owner, name) when there are at
\* least two, and (the segment, "") when there is exactly one; and
\* validate_github_url rejects the URL with exactly one segment.
C16_OwnerNameFromPath ==
    /\ (call.fn = "parse_owner_name_from_url" /\ IsHttpsUrlOf("github.com"))
          => /\ ~call.raised
             /\ Len(UrlSegments) >= 2
                   => (call.owner = UrlSegments[1]
                       /\ call.name = UrlSegments[2])
             /\ Len(UrlSegments) = 1
                   => (call.owner = UrlSegments[1] /\ call.name = <<>>)
    /\ (call.fn = "validate_github_url" /\ IsHttpsUrlOf("github.com")
        /\ Len(UrlSegments) = 1)
          => (~call.raised /\ call.result = FALSE)

\* C17: validate_github_url never raises, and returns True exactly when the
\* URL's host is github.com and both owner and name can be derived from
\* its path.
C17_ValidIffGithubOwnerName ==
    (call.fn = "validate_github_url" /\ call.shape.scheme
     /\ call.shape.slashes)
        => /\ ~call.raised
           /\ call.result <=> (IsHttpsUrlOf("github.com")
                               /\ Len(UrlSegments) >= 2)

\* the query got a 200 response whose body is an object naming a branch
WellFormed200 ==
    call.net_ok /\ call.status = 200 /\ call.payload = "develop"

\* C20: _get_head never raises; it returns "main" on every failure (no
\* response, a non-200 response, a malformed payload) and the remote's
\* default_branch on a well-formed 200 response.
C20_HeadFallsBackToMain ==
    (call.fn = "_get_head") =>
        /\ ~call.raised
        /\ WellFormed200 => call.result = call.payload
        /\ ~WellFormed200 => call.result = "main"

\* C21: a clone_from call without a branch clones into
\* <root>/<name>/<default branch>, the last segment being the non-empty
\* default branch name with "/" replaced by "-"; never into <root>/<name>.
C21_DefaultBranchSegment ==
    (call.fn = "clone_dest_default") =>
        /\ call.head_name # <<>>
        /\ call.clone_dest # call.dest
        /\ call.clone_dest =
              Append(call.dest,
                     [i \in 1..Len(call.head_name) |->
                         IF call.head_name[i] = "/" THEN "-"
                         ELSE call.head_name[i]])

\* C33: in __remove_dir, a path whose removal fails while it is not
\* writable has its write protection cleared and its removal retried
\* exactly once, the result being False without a further attempt when the
\* retry fails; a removal that fails for another reason (on a writable
\* path, or on a path whose protection cannot be cleared) is reported as
\* False without any retry.
C33_RetryExactlyOnce ==
    (call.fn = "__remove_dir" /\ call.fails[1])
        => IF ~call.writable /\ call.chmod_ok
           THEN /\ call.chmods = 1
                /\ call.attempts = 2
                /\ call.result = ~call.fails[2]
           ELSE /\ call.chmods = (IF call.writable THEN 0 ELSE 1)
                /\ call.attempts = 1
                /\ call.result = FALSE

\* the bounds _determine_max_workers takes the minimum of
WorkerBounds ==
    {(call.cpus * call.lf) \div FracDen,
     (call.mem * WorkersPerGB) \div FracDen}
        \cup (IF call.max_limit = <<>> THEN {} ELSE {call.max_limit[1]})

\* C34: _determine_max_workers returns the least of floor(cpus *
\* load_factor), floor(free GB * 10) and max_limit when given, raised to 1:
\* the result is at least 1, and when every bound is at least 1 it exceeds
\* none of them.
C34_WorkersWithinBounds ==
    (call.fn = "_determine_max_workers")
        => /\ call.result >= 1
           /\ \E least \in WorkerBounds :
                 /\ \A b \in WorkerBounds : least <= b
                 /\ call.result = Max(1, least)
           /\ (\A b \in WorkerBounds : b >= 1)
                 => (\A b \in WorkerBounds : call.result <= b)

C34_Witness ==
    /\ call.fn = "_determine_max_workers"
    /\ call.cpus = 4
    /\ call.lf = 3
    /\ call.mem = 0
    /\ call.max_limit = <<2>>
    /\ call.result = 1

\* C36: the git clone invoked for clone_from(dest, branch=B) receives B as
\* its branch option, and receives no branch option when clone_from got no
\* branch.
C36_BranchReachesGit ==
    (call.fn = "git_clone")
        => kwargs_get(call.options, "branch") = call.branch

\* C39: the clone_from calls that clone_branches has running at the same
\* time for distinct branches of one repository have distinct destination
\* directories and distinct backup directories.
C39_BranchDestinationsDistinct ==
    \A i, j \in BranchIds :
       (i # j /\ InBranchClone(i) /\ InBranchClone(j)
              /\ bw[i].branch # bw[j].branch)
           => /\ bw[i].clone_dest # bw[j].clone_dest
              /\ backup_dir_of(bw[i].clone_dest)
                     # backup_dir_of(bw[j].clone_dest)

(***************************************************************************)
(* Properties of clone_from (checked under Spec).                          *)
(***************************************************************************)
\* clone_from has finished, by returning or by raising
CallFinished == outcome # "none"

\* __clone_from_basecls has returned in the current call
LoopDone ==
    /\ calls > 0
    /\ pc \in {"after_clone", "rollback_rename", "emit", "idle"}
    /\ lastEvent # "makedirs_raised"

\* C1: when clone_from was called on an existing destination and the clone
\* failed on every attempt, the destination holds at the end of the call
\* exactly what it held before (stated for calls in which every deletion
\* and rename did what was asked).
C1_RollbackRestoresDestination ==
    (CallFinished /\ Exists(destBefore) /\ ~successful_clone /\ ~fsFailed)
        => destDir = destBefore

\* C2: on an existing destination the previous content is moved to the
\* backup directory before the clone is first invoked, and until the clone
\* has succeeded it is found at the destination or in the backup directory.
C2_PreviousContentKept ==
    /\ (pc = "clone" /\ invocations = 0 /\ Exists(destBefore) /\ ~fsFailed)
          => (backupDir = destBefore /\ ~Exists(destDir))
    /\ (calls > 0 /\ Exists(destBefore) /\ ~successful_clone /\ ~fsFailed)
          => (destDir = destBefore \/ backupDir = destBefore)

\* C3: when a clone_from call on an existing destination has finished and
\* its deletions and renames succeeded, no backup directory exists.
C3_NoBackupOutlivesCall ==
    (CallFinished /\ existed /\ ~fsFailed) => ~Exists(backupDir)

C3_Witness ==
    /\ CallFinished
    /\ existed
    /\ ~fsFailed
    /\ successful_clone
    /\ backupBefore = STALE
    /\ destDir = NewContent(calls)

\* C6: a clone that fails on every attempt is invoked exactly max_retries
\* times, then failure is reported and the clone is not invoked again.
C6_RetryExhaustion ==
    /\ invocations <= max_retries
    /\ (LoopDone /\ ~successful_clone)
          => (invocations = max_retries /\ attempt = max_retries)

C6_Witness ==
    /\ LoopDone
    /\ ~successful_clone
    /\ max_retries = DefaultMaxRetries
    /\ invocations = DefaultMaxRetries

\* C7: a clone that fails k times and then succeeds reports success after
\* exactly k+1 invocations, with k < max_retries, one delay after each
\* failure and nothing after the successful attempt.
C7_SuccessShortCircuits ==
    (LoopDone /\ successful_clone)
        => /\ attempt < max_retries
           /\ invocations = attempt + 1
           /\ sleeps = attempt
           /\ lastEvent = "invoke_ok"

C7_Witness ==
    /\ LoopDone
    /\ successful_clone
    /\ attempt = 2
    /\ invocations = 3

\* C9: a CloneRepoTask emits finished exactly when its clone succeeded and
\* error exactly when the clone failed on all attempts.
C9_SignalMatchesCloneResult ==
    (signal # "none") => (signal = "finished" <=> successful_clone)

\* C18: a clone_from call whose clone failed on every attempt leaves
\* cloned_to and repo as they were before the call, on an existing and on a
\* non-existing destination.
C18_FieldsSetOnlyOnSuccess ==
    (CallFinished /\ ~successful_clone)
        => (cloned_to = clonedToBefore /\ repo = repoBefore)

\* C19: whenever a clone_from call has finished, by returning or by
\* raising, with cloned_to set, the directory it names exists.
C19_ClonedToExists ==
    (CallFinished /\ cloned_to # "") => Exists(destDir)

\* C27: the retry loop sleeps after every failed attempt but the last and
\* never after a successful one: a run that exhausts max_retries attempts
\* has slept max_retries - 1 times, and every sleep has a failed invocation
\* before it and a further invocation after it.
C27_SleepBetweenAttempts ==
    /\ (LoopDone /\ ~successful_clone) => (sleeps = max_retries - 1)
    /\ (lastEvent = "sleep")
          => /\ pc = "clone"
             /\ attempt < max_retries
             /\ invocations = attempt
             /\ sleeps = attempt
    /\ (lastEvent = "invoke_fail") => (sleeps = attempt - 1)
    /\ (lastEvent = "invoke_ok") => (pc # "sleep" /\ sleeps = attempt)

C27_Witness ==
    /\ LoopDone
    /\ ~successful_clone
    /\ max_retries = DefaultMaxRetries
    /\ sleeps = DefaultMaxRetries - 1
    /\ lastEvent = "invoke_fail"

\* C30: when the destination did not exist before clone_from and the clone
\* failed on every attempt, the finished call leaves no destination
\* directory behind and has created no backup directory.
C30_FreshFailureLeavesNothing ==
    (CallFinished /\ ~Exists(destBefore) /\ ~successful_clone)
        => (~Exists(destDir) /\ backupDir = backupBefore)

\* C31: when a backup directory already exists at the start of a call on
\* an existing destination, it is deleted before the destination is moved,
\* after the move the backup directory holds what the destination held at
\* the start of the call, and until the clone has succeeded that content is
\* found at the destination or in the backup directory, also when the
\* deletion of the stale backup or the move has failed.
C31_StaleBackupReplaced ==
    /\ (pc = "backup_rename" /\ Exists(destBefore) /\ ~fsFailed)
          => (~Exists(backupDir) /\ destDir = destBefore)
    /\ (pc = "clone" /\ invocations = 0 /\ Exists(destBefore)
           /\ Exists(backupBefore) /\ ~Exists(destDir))
          => backupDir = destBefore
    /\ (calls > 0 /\ Exists(destBefore) /\ Exists(backupBefore)
           /\ ~successful_clone)
          => (destDir = destBefore \/ backupDir = destBefore)

\* C32: when the clone on an existing destination has succeeded and the
\* deletion of the backup directory fails (the directory is still there
\* when the call has finished), clone_from returns without raising, the
\* new clone is at the destination, cloned_to names it, and the task emits
\* no error.
C32_BackupDeletionFailureIsSuccess ==
    (CallFinished /\ existed /\ successful_clone /\ Exists(backupDir))
        => /\ outcome = "returned"
           /\ destDir = NewContent(calls)
           /\ cloned_to = "clone_dest"
           /\ signal # "error"

C32_Witness ==
    /\ CallFinished
    /\ existed
    /\ successful_clone
    /\ backupDir = ORIG
    /\ destDir = NewContent(calls)
    /\ signal = "finished"

(***************************************************************************)
(* The branch lists of one Repository under repeated refreshes.            *)
(***************************************************************************)
NextBranches ==
    \/ collect_branches
    \/ collect_active_branches

SpecBranches == InitQ /\ [][NextBranches]_vars

(***************************************************************************)
(* The window: rows are added, the pull button is pressed, the TaskQueue   *)
(* dispatches the clone tasks.                                             *)
(***************************************************************************)
NextPull ==
    \/ add_entry
    \/ load_saved_repos
    \/ handle_cell_doubleclick
    \/ handle_cell_doubleclick_accepted
    \/ handle_cell_doubleclick_rejected
    \/ remove_selected_entries
    \/ set_selection_selected
    \/ set_selection_deselected
    \/ set_all_selected
    \/ set_all_deselected
    \/ pull_checkbox_clicked
    \/ pull_repos_collect
    \/ pull_repos_add_task
    \/ pull_repos_return
    \/ set_backup_path
    \/ pick_backup_path
    \/ pick_backup_path_chosen
    \/ pick_backup_path_aborted
    \/ pull_repos_no_ui_collect
    \/ clone_and_update_repo_start
    \/ clone_and_update_repo_finish
    \/ pull_repos_no_ui_return
    \/ closeEvent_stop
    \/ stop_return
    \/ closeEvent_save
    \/ process_tasks_exit
    \/ process_tasks_idle
    \/ process_tasks_peek
    \/ process_tasks_increment
    \/ process_tasks_cap_reached
    \/ process_tasks_get
    \/ process_tasks_wrap
    \/ process_tasks_raise
    \/ process_tasks_except
    \/ process_tasks_start
    \/ wrapped_run_starts
    \/ wrapped_run_finishes

SpecPull == InitWindow /\ [][NextPull]_vars

(***************************************************************************)
(* Functions of git.py called on their own, one call at a time.            *)
(***************************************************************************)
NextCalls ==
    \/ call_filter_active
    \/ call_clone_dest
    \/ call_parse_owner_name_from_url
    \/ call_validate_github_url
    \/ call_get_head
    \/ call_clone_dest_default
    \/ call_remove_dir
    \/ call_determine_max_workers
    \/ call_git_clone

SpecCalls == InitQ /\ [][NextCalls]_vars

====
